---- MODULE Spec2Model ----
(***************************************************************************)
(* State-machine model of the roguelike simulation engine (src/src/*.rs).  *)
(*                                                                         *)
(* Rust vectors are modelled as TLA+ sequences, so every index is shifted  *)
(* by one: the player, objects[PLAYER] with PLAYER = 0 in the source, is   *)
(* objects[1] here.  Option<T> is a sequence of length 0 (None) or 1       *)
(* (Some).  The message log keeps the tags of the messages added by the    *)
(* latest handler only.                                                    *)
(***************************************************************************)
EXTENDS Integers, Sequences, FiniteSets, TLC

VARIABLES
    objects,                    \* Vec<Object>: entities on the map
    inventory,                  \* game.inventory
    messages,                   \* game.messages (tags added by the latest handler)
    map,                        \* game.map: the set of carved (Tile::empty) tiles
    rooms,                      \* make_map: the accepted rooms, in order
    attempt,                    \* make_map: number of room attempts made
    player_action,              \* play_game: result of the latest handle_keys
    ai_invoked,                 \* play_game: indices ai_take_turn ran for, latest iteration
    fov_origin,                 \* tcod.fov: position compute_fov was last run from
    previous_player_position,   \* play_game: local of the same name
    key,                        \* tcod.key: the key handle_keys last looked at
    phase,                      \* which part of the program is running
    hits,                       \* combat harness: number of Object::attack calls made
    attacker,                   \* harnesses: index of the attacking entity, of the item used
    mouse,                      \* tcod.mouse: the tile the latest targeting prompt returned
    savegame,                   \* the file "savegame": None or Some(contents)
    dungeon_level,              \* game.dungeon_level
    lookup,                     \* from_dungeon_level: the arguments and result of a call
    menu_answers                \* level_up: what menu returned, prompt after prompt

vars == <<objects, inventory, messages, map, rooms, attempt, player_action,
          ai_invoked, fov_origin, previous_player_position, key, phase, hits,
          attacker, mouse, savegame, dungeon_level, lookup, menu_answers>>

----------------------------------------------------------------------------
(* Option<T> *)

None == <<>>

Some(v) == <<v>>

IsSome(o) == o # <<>>

Unwrap(o) == o[1]

Min(a, b) == IF a < b THEN a ELSE b

----------------------------------------------------------------------------
(* Program constants *)

PLAYER == 1

MAX_INVENTORY == 26

TORCH_RADIUS == 10

HEAL_AMOUNT == 40

LIGHTNING_DAMAGE == 40

LIGHTNING_RANGE == 5

CONFUSE_RANGE == 8

CONFUSE_NUM_TURNS == 10

FIREBALL_RADIUS == 3

FIREBALL_DAMAGE == 25

ROOM_MAX_SIZE == 10

LEVEL_UP_BASE == 200

LEVEL_UP_FACTOR == 150

----------------------------------------------------------------------------
(* Entity model: object.rs, item.rs *)

Object_new(x, y, name, blocks) ==
    [x |-> x, y |-> y, name |-> name, blocks |-> blocks, alive |-> FALSE,
     fighter |-> None, ai |-> None, item |-> None, always_visible |-> FALSE,
     level |-> 1, equipment |-> None]

Fighter(max_hp, hp, defense, power, xp, on_death) ==
    [base_max_hp |-> max_hp, hp |-> hp, base_defense |-> defense,
     base_power |-> power, xp |-> xp, on_death |-> on_death]

Ai_Basic == [kind |-> "Basic"]

Ai_Confused(previous_ai, num_turns) ==
    [kind |-> "Confused", previous_ai |-> previous_ai, num_turns |-> num_turns]

Equipment(slot, power_bonus, defense_bonus, max_hp_bonus) ==
    [slot |-> slot, equipped |-> FALSE, power_bonus |-> power_bonus,
     defense_bonus |-> defense_bonus, max_hp_bonus |-> max_hp_bonus]

NewPlayer(x, y) ==
    [Object_new(x, y, "Player", TRUE) EXCEPT
        !.alive = TRUE,
        !.fighter = Some(Fighter(30, 30, 2, 5, 0, "Player"))]

Orc(x, y) ==
    [Object_new(x, y, "Orc", TRUE) EXCEPT
        !.fighter = Some(Fighter(20, 20, 0, 4, 35, "Monster")),
        !.ai = Some(Ai_Basic),
        !.alive = TRUE]

Troll(x, y) ==
    [Object_new(x, y, "Troll", TRUE) EXCEPT
        !.fighter = Some(Fighter(30, 30, 2, 8, 100, "Monster")),
        !.ai = Some(Ai_Basic),
        !.alive = TRUE]

Potion_new(x, y, name, item) ==
    [Object_new(x, y, name \o " Potion", FALSE) EXCEPT
        !.item = Some(item), !.always_visible = TRUE]

Scroll_new(x, y, name, item) ==
    [Object_new(x, y, "Scroll of " \o name, FALSE) EXCEPT
        !.item = Some(item), !.always_visible = TRUE]

Sword(x, y) ==
    [Object_new(x, y, "Sword", FALSE) EXCEPT
        !.item = Some("Sword"),
        !.equipment = Some(Equipment("RightHand", 3, 0, 0)),
        !.always_visible = TRUE]

Shield(x, y) ==
    [Object_new(x, y, "shield", FALSE) EXCEPT
        !.item = Some("Shield"),
        !.equipment = Some(Equipment("LeftHand", 0, 1, 0)),
        !.always_visible = TRUE]

Stairs(x, y) ==
    [Object_new(x, y, "Stairs", FALSE) EXCEPT !.always_visible = TRUE]

\* The item an object of place_objects' item table is built as.
MakeItem(kind, x, y) ==
    CASE kind = "Heal" -> Potion_new(x, y, "Healing", "Heal")
      [] kind = "Lightning" -> Scroll_new(x, y, "Lightning Bolt", "Lightning")
      [] kind = "Fireball" -> Scroll_new(x, y, "Fireball", "Fireball")
      [] kind = "Confuse" -> Scroll_new(x, y, "Confusion", "Confuse")
      [] kind = "Sword" -> Sword(x, y)
      [] kind = "Shield" -> Shield(x, y)

----------------------------------------------------------------------------
(* Sequence helpers standing for Vec operations *)

RECURSIVE SumSeq(_)
SumSeq(s) == IF s = <<>> THEN 0 ELSE Head(s) + SumSeq(Tail(s))

\* Vec::pop in the place of Vec::remove(i)
Remove_last(s, i) == [k \in 1..(Len(s) - 1) |-> s[k]]

\* Vec::remove(i)
Remove(s, i) == [k \in 1..(Len(s) - 1) |-> IF k < i THEN s[k] ELSE s[k + 1]]

\* Vec::swap_remove(i): the last element takes the place of the removed one
SwapRemove(s, i) ==
    [k \in 1..(Len(s) - 1) |-> IF k = i THEN s[Len(s)] ELSE s[k]]

\* Iterator::position: the first of the indices hit, as an Option
Position(hit) ==
    IF hit = {} THEN None
    ELSE Some(CHOOSE k \in hit : \A j \in hit : k <= j)

\* game.messages.add
Msg(st, m) == [st EXCEPT !.messages = Append(@, m)]

----------------------------------------------------------------------------
(* Equipment: object.rs / equipment.rs *)

\* Object::get_all_equipped, as the sequence of equipped Equipment records
RECURSIVE EquippedOf(_)
EquippedOf(inv) ==
    IF inv = <<>> THEN <<>>
    ELSE LET o == Head(inv)
         IN  IF IsSome(o.equipment) /\ Unwrap(o.equipment).equipped
             THEN <<Unwrap(o.equipment)>> \o EquippedOf(Tail(inv))
             ELSE EquippedOf(Tail(inv))

get_all_equipped(obj, inv) ==
    IF obj.name = "Player" THEN EquippedOf(inv) ELSE <<>>

power(obj, inv) ==
    LET eq == get_all_equipped(obj, inv)
        base_power == IF IsSome(obj.fighter) THEN Unwrap(obj.fighter).base_power ELSE 0
    IN  base_power + SumSeq([k \in 1..Len(eq) |-> eq[k].power_bonus])

defense(obj, inv) ==
    LET eq == get_all_equipped(obj, inv)
        base_defense == IF IsSome(obj.fighter) THEN Unwrap(obj.fighter).base_defense ELSE 0
    IN  base_defense + SumSeq([k \in 1..Len(eq) |-> eq[k].defense_bonus])

max_hp(obj, inv) ==
    LET eq == get_all_equipped(obj, inv)
        base_max_hp == IF IsSome(obj.fighter) THEN Unwrap(obj.fighter).base_max_hp ELSE 0
    IN  base_max_hp + SumSeq([k \in 1..Len(eq) |-> eq[k].max_hp_bonus])

\* equipment.rs is not part of the sources; from the specification: the
\* inventory index of the item equipped in the slot, if any.
get_equipped_in_slot(slot, inv) ==
    Position({i \in 1..Len(inv) : /\ IsSome(inv[i].equipment)
                                  /\ Unwrap(inv[i].equipment).equipped
                                  /\ Unwrap(inv[i].equipment).slot = slot})

\* Object::equip on inventory[i]
equip(st, i) ==
    LET o == st.inventory[i]
    IN  IF ~IsSome(o.item) THEN Msg(st, "Can't equip: not an Item")
        ELSE IF IsSome(o.equipment)
        THEN IF ~Unwrap(o.equipment).equipped
             THEN Msg([st EXCEPT !.inventory[i].equipment[1].equipped = TRUE],
                      "Equipped")
             ELSE st
        ELSE Msg(st, "Can't equip: not an Equipment Item")

\* Object::dequip on inventory[i].  The source tests `!equipment.equipped`
\* before clearing the flag, so an equipped item is left as it is.
dequip(st, i) ==
    LET o == st.inventory[i]
    IN  IF ~IsSome(o.item) THEN Msg(st, "Can't dequip: not an Item")
        ELSE IF IsSome(o.equipment)
        THEN IF ~Unwrap(o.equipment).equipped
             THEN Msg([st EXCEPT !.inventory[i].equipment[1].equipped = FALSE],
                      "Dequipped")
             ELSE st
        ELSE Msg(st, "Can't dequip: not an Equipment Item")

\* item.rs toggle_equipment; result is the UseResult
toggle_equipment(st, inventory_id) ==
    LET eq == st.inventory[inventory_id].equipment
    IN  IF ~IsSome(eq) THEN [st |-> st, result |-> "Cancelled"]
        ELSE IF Unwrap(eq).equipped
        THEN [st |-> dequip(st, inventory_id), result |-> "UsedAndKept"]
        ELSE LET current == get_equipped_in_slot(Unwrap(eq).slot, st.inventory)
                 st1 == IF IsSome(current) THEN dequip(st, Unwrap(current)) ELSE st
             IN  [st |-> equip(st1, inventory_id), result |-> "UsedAndKept"]

\* pick_item_up refusing only above the capacity
pick_item_up_above_cap(st, object_id) ==
    IF Len(st.inventory) > MAX_INVENTORY
    THEN Msg(st, "Your inventory is full")
    ELSE LET item == st.objects[object_id]
             index == Len(st.inventory) + 1
             st1 == Msg([st EXCEPT !.objects = SwapRemove(@, object_id),
                                   !.inventory = Append(@, item)],
                        "You picked up")
         IN  IF IsSome(item.equipment)
                /\ ~IsSome(get_equipped_in_slot(Unwrap(item.equipment).slot,
                                                st1.inventory))
             THEN equip(st1, index)
             ELSE st1

\* item.rs pick_item_up
pick_item_up(st, object_id) ==
    IF Len(st.inventory) >= MAX_INVENTORY
    THEN Msg(st, "Your inventory is full")
    ELSE LET item == st.objects[object_id]
             index == Len(st.inventory) + 1
             st1 == Msg([st EXCEPT !.objects = SwapRemove(@, object_id),
                                   !.inventory = Append(@, item)],
                        "You picked up")
         IN  IF IsSome(item.equipment)
                /\ ~IsSome(get_equipped_in_slot(Unwrap(item.equipment).slot,
                                                st1.inventory))
             THEN equip(st1, index)
             ELSE st1

\* drop_item putting the item at the head of the entity list
drop_item_front(st, inventory_id) ==
    LET item == [st.inventory[inventory_id] EXCEPT
                    !.x = st.objects[PLAYER].x, !.y = st.objects[PLAYER].y]
    IN  Msg([st EXCEPT !.inventory = Remove(@, inventory_id),
                       !.objects = <<item>> \o @],
            "You dropped")

\* main.rs drop_item
drop_item(st, inventory_id) ==
    LET item == [st.inventory[inventory_id] EXCEPT
                    !.x = st.objects[PLAYER].x, !.y = st.objects[PLAYER].y]
    IN  Msg([st EXCEPT !.inventory = Remove(@, inventory_id),
                       !.objects = Append(@, item)],
            "You dropped")

----------------------------------------------------------------------------
(* Map and movement: map.rs, object.rs *)

\* Tile.blocked of map[x][y]; Tile::wall everywhere that was not carved
Blocked(m, x, y) == <<x, y>> \notin m

is_blocked(x, y, m, objs) ==
    \/ Blocked(m, x, y)
    \/ \E k \in 1..Len(objs) : objs[k].blocks /\ objs[k].x = x /\ objs[k].y = y

\* Object::move_by
move_by(id, dx, dy, m, objs) ==
    LET x == objs[id].x
        y == objs[id].y
    IN  IF ~is_blocked(x + dx, y + dy, m, objs)
        THEN [objs EXCEPT ![id].x = x + dx, ![id].y = y + dy]
        ELSE objs

\* Squares of Object::distance_to and Object::distance (the source compares
\* the square roots; all comparisons below are made on the squares)
distance_to2(a, b) == (b.x - a.x) * (b.x - a.x) + (b.y - a.y) * (b.y - a.y)

distance2(a, x, y) == (x - a.x) * (x - a.x) + (y - a.y) * (y - a.y)

----------------------------------------------------------------------------
(* Field of view: tcod.fov, computed by render_all from the player position *)

\* A wall tile lies on the sight line from a to b when its centre is within
\* half a tile of the segment.
OnSegment(a, b, t) ==
    LET dx == b[1] - a[1]
        dy == b[2] - a[2]
        vx == t[1] - a[1]
        vy == t[2] - a[2]
        cross == dx * vy - dy * vx
        dot == dx * vx + dy * vy
    IN  /\ t # a
        /\ t # b
        /\ dot >= 0
        /\ dot <= dx * dx + dy * dy
        /\ 4 * cross * cross <= dx * dx + dy * dy

is_in_fov(origin, m, x, y) ==
    LET lo_x == Min(origin[1], x)
        hi_x == origin[1] + x - lo_x
        lo_y == Min(origin[2], y)
        hi_y == origin[2] + y - lo_y
    IN  /\ origin[1] >= 0
        /\ (x - origin[1]) * (x - origin[1]) + (y - origin[2]) * (y - origin[2])
               <= TORCH_RADIUS * TORCH_RADIUS
        /\ \A tx \in lo_x..hi_x : \A ty \in lo_y..hi_y :
               Blocked(m, tx, ty) => ~OnSegment(origin, <<x, y>>, <<tx, ty>>)

----------------------------------------------------------------------------
(* Combat: object.rs *)

\* DeathCallback is not part of the sources; from the specification:
\* Player -> game-over message; Monster -> renamed "remains of X", blocking
\* flag cleared, AI cleared.
DeathCallback(st, id, on_death) ==
    IF on_death = "Player"
    THEN Msg(st, "You died!")
    ELSE Msg([st EXCEPT !.objects[id].name = "remains of " \o @,
                        !.objects[id].blocks = FALSE,
                        !.objects[id].ai = None],
             "is dead!")

\* take_damage without the floor at 0
take_damage_unfloored(st, id, damage) ==
    LET o == st.objects[id]
        hp1 == IF IsSome(o.fighter) /\ damage > 0
               THEN Unwrap(o.fighter).hp - damage
               ELSE IF IsSome(o.fighter) THEN Unwrap(o.fighter).hp ELSE 0
        st1 == IF IsSome(o.fighter)
               THEN [st EXCEPT !.objects[id].fighter[1].hp = hp1]
               ELSE st
    IN  IF IsSome(o.fighter) /\ hp1 = 0
        THEN [st |-> DeathCallback(
                        [st1 EXCEPT !.objects[id].alive = FALSE,
                                    !.objects[id].always_visible = TRUE],
                        id, Unwrap(o.fighter).on_death),
              xp |-> Some(Unwrap(o.fighter).xp)]
        ELSE [st |-> st1, xp |-> None]

\* Object::take_damage on objects[id]; xp is the returned Option<i32>
take_damage(st, id, damage) ==
    LET o == st.objects[id]
        hp1 == IF IsSome(o.fighter) /\ damage > 0
               THEN IF Unwrap(o.fighter).hp - damage < 0
                    THEN 0
                    ELSE Unwrap(o.fighter).hp - damage
               ELSE IF IsSome(o.fighter) THEN Unwrap(o.fighter).hp ELSE 0
        st1 == IF IsSome(o.fighter)
               THEN [st EXCEPT !.objects[id].fighter[1].hp = hp1]
               ELSE st
    IN  IF IsSome(o.fighter) /\ hp1 = 0
        THEN [st |-> DeathCallback(
                        [st1 EXCEPT !.objects[id].alive = FALSE,
                                    !.objects[id].always_visible = TRUE],
                        id, Unwrap(o.fighter).on_death),
              xp |-> Some(Unwrap(o.fighter).xp)]
        ELSE [st |-> st1, xp |-> None]

\* attack taking the defense from the attacker instead of the target
attack_own_defense(st, a, t) ==
    LET damage == power(st.objects[a], st.inventory)
                    - defense(st.objects[a], st.inventory)
    IN  IF damage > 0
        THEN LET r == take_damage(Msg(st, "attacks"), t, damage)
             IN  IF IsSome(r.xp)
                 THEN [r.st EXCEPT !.objects[a].fighter[1].xp = @ + Unwrap(r.xp)]
                 ELSE r.st
        ELSE Msg(st, "attacks but it has no effect!")

\* Object::attack: objects[a] attacks objects[t]
attack(st, a, t) ==
    LET damage == power(st.objects[a], st.inventory)
                    - defense(st.objects[t], st.inventory)
    IN  IF damage > 0
        THEN LET r == take_damage(Msg(st, "attacks"), t, damage)
             IN  IF IsSome(r.xp)
                 THEN [r.st EXCEPT !.objects[a].fighter[1].xp = @ + Unwrap(r.xp)]
                 ELSE r.st
        ELSE Msg(st, "attacks but it has no effect!")

\* main.rs player_move_or_attack; the returned PlayerAction is always TookTurn
player_move_or_attack(st, dx, dy, m) ==
    LET x == st.objects[PLAYER].x + dx
        y == st.objects[PLAYER].y + dy
        target_id == Position({k \in 1..Len(st.objects) :
                                  /\ IsSome(st.objects[k].fighter)
                                  /\ st.objects[k].x = x
                                  /\ st.objects[k].y = y})
    IN  [st |-> IF IsSome(target_id)
                THEN attack(st, PLAYER, Unwrap(target_id))
                ELSE [st EXCEPT !.objects = move_by(PLAYER, dx, dy, m, @)],
         action |-> "TookTurn"]

----------------------------------------------------------------------------
(* Monster AI: ai.rs *)

\* (d as f32 / distance).round() for distance = sqrt(d2) > 0
RoundUnit(d, d2) ==
    IF 4 * d * d >= d2 THEN (IF d > 0 THEN 1 ELSE -1) ELSE 0

move_towards(id, target_x, target_y, m, objs) ==
    LET dx == target_x - objs[id].x
        dy == target_y - objs[id].y
        d2 == dx * dx + dy * dy
    IN  move_by(id, RoundUnit(dx, d2), RoundUnit(dy, d2), m, objs)

\* The branch of ai_take_turn an invocation takes: "idle" out of the field
\* of view, "chase" from 2 tiles or more, "adjacent" next to a player with
\* hp > 0, "spent" next to a player without
AiBranch(objs, monster_id, fov, m) ==
    IF ~is_in_fov(fov, m, objs[monster_id].x, objs[monster_id].y) THEN "idle"
    ELSE IF distance_to2(objs[monster_id], objs[PLAYER]) >= 4 THEN "chase"
    ELSE IF IsSome(objs[PLAYER].fighter) /\ Unwrap(objs[PLAYER].fighter).hp > 0
         THEN "adjacent"
         ELSE "spent"

\* ai_take_turn without the test of the field of view
ai_take_turn_unseen(st, monster_id, fov, m) ==
    LET objs == st.objects
    IN  IF distance_to2(objs[monster_id], objs[PLAYER]) >= 4
        THEN [st EXCEPT !.objects =
                 move_towards(monster_id, objs[PLAYER].x, objs[PLAYER].y, m, @)]
        ELSE st

\* ai_take_turn: the monster steps towards a player it sees from 2 tiles or
\* more; next to the player it only prints a line.
ai_take_turn(st, monster_id, fov, m) ==
    LET objs == st.objects
    IN  IF is_in_fov(fov, m, objs[monster_id].x, objs[monster_id].y)
        THEN IF distance_to2(objs[monster_id], objs[PLAYER]) >= 4
             THEN [st EXCEPT !.objects =
                      move_towards(monster_id, objs[PLAYER].x, objs[PLAYER].y, m, @)]
             ELSE st
        ELSE st

\* The turn of a confused monster is not part of the sources; from the
\* specification: a random step (roll), one turn less, and the previous AI
\* back, with a message, when no turn is left.
ai_confused(st, monster_id, m, roll) ==
    LET ai == Unwrap(st.objects[monster_id].ai)
        moved == [st EXCEPT !.objects = move_by(monster_id, roll[1], roll[2], m, @)]
    IN  IF ai.num_turns - 1 <= 0
        THEN Msg([moved EXCEPT !.objects[monster_id].ai = Some(ai.previous_ai)],
                 "is no longer confused!")
        ELSE [moved EXCEPT !.objects[monster_id].ai =
                               Some(Ai_Confused(ai.previous_ai, ai.num_turns - 1))]

\* play_game: `for id in 0..objects.len()`, from index id on; the result is
\* the state and the set of indices the AI controller was called for
RECURSIVE MonsterPhase(_, _, _, _, _, _)
MonsterPhase(st, id, fov, m, rolls, invoked) ==
    IF id > Len(st.objects) THEN [st |-> st, invoked |-> invoked]
    ELSE IF IsSome(st.objects[id].ai)
         THEN MonsterPhase(IF Unwrap(st.objects[id].ai).kind = "Confused"
                           THEN ai_confused(st, id, m, rolls[id])
                           ELSE ai_take_turn(st, id, fov, m),
                           id + 1, fov, m, rolls, invoked \cup {id})
         ELSE MonsterPhase(st, id + 1, fov, m, rolls, invoked)

----------------------------------------------------------------------------
(* Item effects: item.rs, object.rs *)

\* heal without the clamp at the effective maximum
heal_unclamped(st, id, amount) ==
    IF IsSome(st.objects[id].fighter)
    THEN [st EXCEPT !.objects[id].fighter[1].hp = @ + amount]
    ELSE st

\* Object::heal on objects[id]
heal(st, id, amount) ==
    LET cap == max_hp(st.objects[id], st.inventory)
    IN  IF IsSome(st.objects[id].fighter)
        THEN [st EXCEPT !.objects[id].fighter[1].hp =
                            IF @ + amount > cap THEN cap ELSE @ + amount]
        ELSE st

\* cast_heal without the test for full health
cast_heal_at_full(st) ==
    IF IsSome(st.objects[PLAYER].fighter)
    THEN [st |-> heal(Msg(st, "Your wounds start to feel better!"),
                      PLAYER, HEAL_AMOUNT),
          result |-> "UsedUp"]
    ELSE [st |-> st, result |-> "Cancelled"]

cast_heal(st) ==
    LET player == st.objects[PLAYER]
    IN  IF IsSome(player.fighter)
        THEN IF Unwrap(player.fighter).hp = max_hp(player, st.inventory)
             THEN [st |-> Msg(st, "You are already at full health."),
                   result |-> "Cancelled"]
             ELSE [st |-> heal(Msg(st, "Your wounds start to feel better!"),
                               PLAYER, HEAL_AMOUNT),
                   result |-> "UsedUp"]
        ELSE [st |-> st, result |-> "Cancelled"]

\* closest_monster, from index id on; closest_d2 is the square of closest_dist
RECURSIVE ClosestFrom(_, _, _, _, _, _)
ClosestFrom(objs, id, fov, m, closest_enemy, closest_d2) ==
    IF id > Len(objs) THEN closest_enemy
    ELSE IF /\ id # PLAYER
            /\ IsSome(objs[id].fighter)
            /\ IsSome(objs[id].ai)
            /\ is_in_fov(fov, m, objs[id].x, objs[id].y)
            /\ distance_to2(objs[PLAYER], objs[id]) < closest_d2
         THEN ClosestFrom(objs, id + 1, fov, m, Some(id),
                          distance_to2(objs[PLAYER], objs[id]))
         ELSE ClosestFrom(objs, id + 1, fov, m, closest_enemy, closest_d2)

\* closest_monster returning the first monster in range, however far
closest_monster_first(fov, m, objs, max_range) ==
    Position({id \in 2..Len(objs) :
                 /\ IsSome(objs[id].fighter)
                 /\ IsSome(objs[id].ai)
                 /\ is_in_fov(fov, m, objs[id].x, objs[id].y)
                 /\ distance_to2(objs[PLAYER], objs[id])
                       < (max_range + 1) * (max_range + 1)})

closest_monster(fov, m, objs, max_range) ==
    ClosestFrom(objs, 1, fov, m, None, (max_range + 1) * (max_range + 1))

cast_lightning(st, fov, m) ==
    LET monster_id == closest_monster(fov, m, st.objects, LIGHTNING_RANGE)
    IN  IF IsSome(monster_id)
        THEN LET r == take_damage(Msg(st, "A lightning bolt strikes"),
                                  Unwrap(monster_id), LIGHTNING_DAMAGE)
             IN  [st |-> IF IsSome(r.xp)
                         THEN [r.st EXCEPT !.objects[PLAYER].fighter[1].xp =
                                               @ + Unwrap(r.xp)]
                         ELSE r.st,
                  result |-> "UsedUp"]
        ELSE [st |-> Msg(st, "No enemy is close enough to strike."),
              result |-> "Cancelled"]

\* target_tile accepts a left click on a tile in the field of view and, when
\* a range is given (max_range2 is its square, -1 for None), in that range
TileAccepted(objs, fov, m, click, max_range2) ==
    /\ is_in_fov(fov, m, click[1], click[2])
    /\ max_range2 >= 0 => distance2(objs[PLAYER], click[1], click[2]) <= max_range2

\* target_monster: the first monster on the clicked tile
MonsterAt(objs, click) ==
    Position({k \in 1..Len(objs) : /\ objs[k].x = click[1]
                                   /\ objs[k].y = click[2]
                                   /\ IsSome(objs[k].fighter)
                                   /\ k # PLAYER})

\* cast_confuse counting one turn too many
cast_confuse_extra_turn(st, target) ==
    IF IsSome(target)
    THEN LET monster_id == Unwrap(target)
             old_ai == IF IsSome(st.objects[monster_id].ai)
                       THEN Unwrap(st.objects[monster_id].ai)
                       ELSE Ai_Basic
         IN  [st |-> Msg([st EXCEPT !.objects[monster_id].ai =
                                 Some(Ai_Confused(old_ai, CONFUSE_NUM_TURNS + 1))],
                         "The eyes look vacant"),
              result |-> "UsedUp"]
    ELSE [st |-> Msg(st, "No enemy is close enough to strike."),
          result |-> "Cancelled"]

\* cast_confuse; target is what target_monster returned
cast_confuse(st, target) ==
    IF IsSome(target)
    THEN LET monster_id == Unwrap(target)
             old_ai == IF IsSome(st.objects[monster_id].ai)
                       THEN Unwrap(st.objects[monster_id].ai)
                       ELSE Ai_Basic
         IN  [st |-> Msg([st EXCEPT !.objects[monster_id].ai =
                                 Some(Ai_Confused(old_ai, CONFUSE_NUM_TURNS))],
                         "The eyes look vacant"),
              result |-> "UsedUp"]
    ELSE [st |-> Msg(st, "No enemy is close enough to strike."),
          result |-> "Cancelled"]

\* cast_fireball: the loop over objects, from index id on
RECURSIVE Burn(_, _, _, _, _)
Burn(st, id, x, y, xp_to_gain) ==
    IF id > Len(st.objects) THEN [st |-> st, xp_to_gain |-> xp_to_gain]
    ELSE IF /\ distance2(st.objects[id], x, y) <= FIREBALL_RADIUS * FIREBALL_RADIUS
            /\ IsSome(st.objects[id].fighter)
         THEN LET r == take_damage(Msg(st, "gets burned"), id, FIREBALL_DAMAGE)
              IN  Burn(r.st, id + 1, x, y,
                       IF IsSome(r.xp) /\ id # PLAYER
                       THEN xp_to_gain + Unwrap(r.xp)
                       ELSE xp_to_gain)
         ELSE Burn(st, id + 1, x, y, xp_to_gain)

\* cast_fireball with the blast centred on the caster instead of the tile
cast_fireball_at_caster(st, click) ==
    IF ~IsSome(click)
    THEN [st |-> Msg(st, "Left-click a target tile"), result |-> "Cancelled"]
    ELSE LET b == Burn(Msg(Msg(st, "Left-click a target tile"),
                           "The fireball explodes"),
                       1, st.objects[PLAYER].x, st.objects[PLAYER].y, 0)
         IN  [st |-> [b.st EXCEPT !.objects[PLAYER].fighter[1].xp =
                                      @ + b.xp_to_gain],
              result |-> "UsedUp"]

\* cast_fireball; click is what target_tile returned
cast_fireball(st, click) ==
    IF ~IsSome(click)
    THEN [st |-> Msg(st, "Left-click a target tile"), result |-> "Cancelled"]
    ELSE LET b == Burn(Msg(Msg(st, "Left-click a target tile"),
                           "The fireball explodes"),
                       1, Unwrap(click)[1], Unwrap(click)[2], 0)
         IN  [st |-> [b.st EXCEPT !.objects[PLAYER].fighter[1].xp =
                                      @ + b.xp_to_gain],
              result |-> "UsedUp"]

\* use_item destroying the item after a cancelled use as well
use_item_consumes_cancelled(st, inventory_id, click, fov, m) ==
    LET item == st.inventory[inventory_id].item
    IN  IF IsSome(item)
        THEN LET kind == Unwrap(item)
                 r == CASE kind = "Heal" -> cast_heal(st)
                        [] kind = "Lightning" -> cast_lightning(st, fov, m)
                        [] kind = "Confuse" ->
                             cast_confuse(st, IF IsSome(click)
                                              THEN MonsterAt(st.objects, Unwrap(click))
                                              ELSE None)
                        [] kind = "Fireball" -> cast_fireball(st, click)
                        [] OTHER -> toggle_equipment(st, inventory_id)
             IN  CASE r.result = "UsedUp" ->
                        [r.st EXCEPT !.inventory = Remove(@, inventory_id)]
                   [] r.result = "UsedAndKept" -> r.st
                   [] OTHER -> Msg([r.st EXCEPT !.inventory = Remove(@, inventory_id)],
                                   "Cancelled")
        ELSE Msg(st, "cannot be used.")

\* use_item; click is the outcome of the targeting prompt, if the item asks
use_item(st, inventory_id, click, fov, m) ==
    LET item == st.inventory[inventory_id].item
    IN  IF IsSome(item)
        THEN LET kind == Unwrap(item)
                 r == CASE kind = "Heal" -> cast_heal(st)
                        [] kind = "Lightning" -> cast_lightning(st, fov, m)
                        [] kind = "Confuse" ->
                             cast_confuse(st, IF IsSome(click)
                                              THEN MonsterAt(st.objects, Unwrap(click))
                                              ELSE None)
                        [] kind = "Fireball" -> cast_fireball(st, click)
                        [] OTHER -> toggle_equipment(st, inventory_id)
             IN  CASE r.result = "UsedUp" ->
                        [r.st EXCEPT !.inventory = Remove(@, inventory_id)]
                   [] r.result = "UsedAndKept" -> r.st
                   [] OTHER -> Msg(r.st, "Cancelled")
        ELSE Msg(st, "cannot be used.")

----------------------------------------------------------------------------
(* Leveling: object.rs *)

\* level_up: the local level_up_xp
level_up_xp(level) == LEVEL_UP_BASE + level * LEVEL_UP_FACTOR

\* level_up with a strict comparison against the threshold
level_up_strict(st, choice) ==
    LET player == st.objects[PLAYER]
        xp == IF IsSome(player.fighter) THEN Unwrap(player.fighter).xp ELSE 0
    IN  IF xp > level_up_xp(player.level)
        THEN LET st1 == Msg([st EXCEPT !.objects[PLAYER].level = @ + 1,
                                       !.objects[PLAYER].fighter[1].xp =
                                           @ - level_up_xp(player.level)],
                            "Your battle skills grow stronger!")
             IN  CASE choice = 0 ->
                        [st1 EXCEPT !.objects[PLAYER].fighter[1].base_max_hp = @ + 20,
                                    !.objects[PLAYER].fighter[1].hp = @ + 20]
                   [] choice = 1 ->
                        [st1 EXCEPT !.objects[PLAYER].fighter[1].base_power = @ + 1]
                   [] choice = 2 ->
                        [st1 EXCEPT !.objects[PLAYER].fighter[1].base_defense = @ + 1]
        ELSE st

\* level_up: `while choice.is_none() { choice = menu(..) }`; the value the
\* loop ends with when menu returns answers[1], answers[2], ... in turn
ask_choice(answers) ==
    answers[CHOOSE i \in 1..Len(answers) :
                /\ IsSome(answers[i])
                /\ \A j \in 1..(i - 1) : ~IsSome(answers[j])]

\* level_up whose Constitution upgrade raises the maximum only
level_up_max_only(st, choice) ==
    LET player == st.objects[PLAYER]
        xp == IF IsSome(player.fighter) THEN Unwrap(player.fighter).xp ELSE 0
    IN  IF xp >= level_up_xp(player.level)
        THEN LET st1 == Msg([st EXCEPT !.objects[PLAYER].level = @ + 1,
                                       !.objects[PLAYER].fighter[1].xp =
                                           @ - level_up_xp(player.level)],
                            "Your battle skills grow stronger!")
             IN  CASE choice = 0 ->
                        [st1 EXCEPT !.objects[PLAYER].fighter[1].base_max_hp = @ + 20]
                   [] choice = 1 ->
                        [st1 EXCEPT !.objects[PLAYER].fighter[1].base_power = @ + 1]
                   [] choice = 2 ->
                        [st1 EXCEPT !.objects[PLAYER].fighter[1].base_defense = @ + 1]
        ELSE st

\* level_up; choice is what the level-up menu returned once a choice was made
level_up(st, choice) ==
    LET player == st.objects[PLAYER]
        xp == IF IsSome(player.fighter) THEN Unwrap(player.fighter).xp ELSE 0
    IN  IF xp >= level_up_xp(player.level)
        THEN LET st1 == Msg([st EXCEPT !.objects[PLAYER].level = @ + 1,
                                       !.objects[PLAYER].fighter[1].xp =
                                           @ - level_up_xp(player.level)],
                            "Your battle skills grow stronger!")
             IN  CASE choice = 0 ->
                        [st1 EXCEPT !.objects[PLAYER].fighter[1].base_max_hp = @ + 20,
                                    !.objects[PLAYER].fighter[1].hp = @ + 20]
                   [] choice = 1 ->
                        [st1 EXCEPT !.objects[PLAYER].fighter[1].base_power = @ + 1]
                   [] choice = 2 ->
                        [st1 EXCEPT !.objects[PLAYER].fighter[1].base_defense = @ + 1]
        ELSE st

----------------------------------------------------------------------------
(* Dungeon geometry: map.rs *)

Rect_new(x, y, w, h) == [x1 |-> x, y1 |-> y, x2 |-> x + w, y2 |-> y + h]

\* Rect::center; the coordinates are never negative, so / truncates like \div
center(r) == <<(r.x1 + r.x2) \div 2, (r.y1 + r.y2) \div 2>>

\* intersects_with with strict comparisons: touching rectangles pass
intersects_with_strict(r, other) ==
    /\ r.x1 < other.x2
    /\ r.x2 > other.x1
    /\ r.y1 < other.y2
    /\ r.y2 > other.y1

intersects_with(r, other) ==
    /\ r.x1 <= other.x2
    /\ r.x2 >= other.x1
    /\ r.y1 <= other.y2
    /\ r.y2 >= other.y1

\* create_room carving the edge of the rectangle as well
create_room_to_edge(room, m) ==
    m \cup {<<x, y>> : x \in room.x1..room.x2, y \in room.y1..room.y2}

\* create_room: the tiles strictly inside the rectangle become Tile::empty
create_room(room, m) ==
    m \cup {<<x, y>> : x \in (room.x1 + 1)..(room.x2 - 1),
                       y \in (room.y1 + 1)..(room.y2 - 1)}

\* create_tunnel through create_horiz_tunnel
create_horiz_tunnel(x1, x2, y, m) ==
    m \cup {<<a, y>> : a \in Min(x1, x2)..(x1 + x2 - Min(x1, x2))}

\* create_tunnel through create_vert_tunnel
create_vert_tunnel(y1, y2, x, m) ==
    m \cup {<<x, a>> : a \in Min(y1, y2)..(y1 + y2 - Min(y1, y2))}

\* make_map: the corridor carved between the previous room and the new one.
\* Both branches of the coin flip dig the horizontal arm along prev_y and
\* the vertical arm along prev_x.
Connect(prev, new, coin, m) ==
    IF coin
    THEN create_vert_tunnel(prev[2], new[2], prev[1],
                            create_horiz_tunnel(prev[1], new[1], prev[2], m))
    ELSE create_horiz_tunnel(prev[1], new[1], prev[2],
                             create_vert_tunnel(prev[2], new[2], prev[1], m))

----------------------------------------------------------------------------
(* Population: object.rs place_objects, item.rs from_dungeon_level *)

\* from_dungeon_level with an entry applying only beyond its level
from_dungeon_level_beyond(table, level) ==
    LET hit == {k \in 1..Len(table) : level > table[k].level}
    IN  IF hit = {} THEN 0
        ELSE table[CHOOSE k \in hit : \A j \in hit : j <= k].value

\* from_dungeon_level: the value of the last table entry whose level is
\* reached, 0 when there is none
from_dungeon_level(table, level) ==
    LET hit == {k \in 1..Len(table) : level >= table[k].level}
    IN  IF hit = {} THEN 0
        ELSE table[CHOOSE k \in hit : \A j \in hit : j <= k].value

Transition(level, value) == [level |-> level, value |-> value]

\* No call of from_dungeon_level on record
NoLookup == [table |-> <<>>, level |-> 0, value |-> None]

MaxMonstersTable == <<Transition(1, 2), Transition(4, 3), Transition(6, 5)>>

max_monsters(level) == from_dungeon_level(MaxMonstersTable, level)

TrollTable == <<Transition(3, 15), Transition(5, 30), Transition(7, 60)>>

troll_chance(level) == from_dungeon_level(TrollTable, level)

\* monster_chances: the weight WeightedIndex draws each kind with
monster_chances(kind, level) ==
    IF kind = "Orc" THEN 80 ELSE troll_chance(level)

MaxItemsTable == <<Transition(1, 1), Transition(4, 2)>>

max_items(level) == from_dungeon_level(MaxItemsTable, level)

\* item_chances: the table of each item kind that has one
ItemTable(kind) ==
    CASE kind = "Lightning" -> <<Transition(4, 25)>>
      [] kind = "Fireball" -> <<Transition(6, 25)>>
      [] kind = "Confuse" -> <<Transition(2, 10)>>
      [] kind = "Sword" -> <<Transition(4, 5)>>
      [] kind = "Shield" -> <<Transition(8, 15)>>

\* item_chances
item_chances(kind, level) ==
    IF kind = "Heal" THEN 35 ELSE from_dungeon_level(ItemTable(kind), level)

\* Game::new: dungeon_level
GenLevel == 1

MonsterKinds == {"Orc", "Troll"}

ItemKinds == {"Heal", "Lightning", "Fireball", "Confuse", "Sword", "Shield"}

\* place_objects, the monster loop: draws holds, per iteration, the random
\* tile and the kind WeightedIndex sampled
RECURSIVE PlaceMonsters(_, _, _)
PlaceMonsters(objs, m, draws) ==
    IF draws = <<>> THEN objs
    ELSE LET d == Head(draws)
         IN  IF ~is_blocked(d.x, d.y, m, objs)
             THEN PlaceMonsters(
                     Append(objs, IF d.kind = "Orc" THEN Orc(d.x, d.y)
                                  ELSE Troll(d.x, d.y)),
                     m, Tail(draws))
             ELSE PlaceMonsters(objs, m, Tail(draws))

\* place_objects, the item loop
RECURSIVE PlaceItems(_, _, _)
PlaceItems(objs, m, draws) ==
    IF draws = <<>> THEN objs
    ELSE LET d == Head(draws)
         IN  IF ~is_blocked(d.x, d.y, m, objs)
             THEN PlaceItems(Append(objs, MakeItem(d.kind, d.x, d.y)), m, Tail(draws))
             ELSE PlaceItems(objs, m, Tail(draws))

place_objects(room, m, objs, monster_draws, item_draws) ==
    PlaceItems(PlaceMonsters(objs, m, monster_draws), m, item_draws)

\* The sequences of at most n elements of S
SeqsUpTo(S, n) == UNION {[1..k -> S] : k \in 0..n}

\* What the random number generator can hand to place_objects for a room
Draws(room, kinds, n) ==
    SeqsUpTo([x : (room.x1 + 1)..(room.x2 - 1),
              y : (room.y1 + 1)..(room.y2 - 1),
              kind : kinds], n)

----------------------------------------------------------------------------
(* The level the turn engine is played on: two rooms of make_map, side by  *)
(* side, joined by their corridor.                                         *)

ArenaWidth == 8

ArenaHeight == 4

ArenaRooms == <<Rect_new(0, 0, 3, 3), Rect_new(4, 0, 3, 3)>>

ArenaMap ==
    Connect(center(ArenaRooms[1]), center(ArenaRooms[2]), TRUE,
            create_room(ArenaRooms[2], create_room(ArenaRooms[1], {})))

ArenaTiles == (0..(ArenaWidth - 1)) \X (0..(ArenaHeight - 1))

\* place_objects can have put the entity into a room of that dungeon level
Spawns(o, level) ==
    IF IsSome(o.ai) THEN monster_chances(o.name, level) > 0
    ELSE IF IsSome(o.item) THEN item_chances(Unwrap(o.item), level) > 0
    ELSE TRUE

\* The first dungeon level on which all the entities of the list can be met
ArenaLevel(objs) ==
    CHOOSE level \in 1..8 :
        /\ \A k \in 1..Len(objs) : Spawns(objs[k], level)
        /\ \A lower \in 1..(level - 1) :
              \E k \in 1..Len(objs) : ~Spawns(objs[k], lower)

\* Entity lists as make_map leaves them: the player at the first room's
\* centre, what place_objects put into the rooms, the stairs at the last
\* room's centre.
ArenaObjects ==
    LET p == NewPlayer(center(ArenaRooms[1])[1], center(ArenaRooms[1])[2])
        s == Stairs(center(ArenaRooms[2])[1], center(ArenaRooms[2])[2])
    IN  { <<p, Sword(2, 2), Sword(1, 2), s>>,
          <<p, Sword(2, 2), Shield(6, 2), s>>,
          <<p, Orc(2, 2), MakeItem("Confuse", 2, 1), s>>,
          <<p, Orc(6, 1), MakeItem("Fireball", 1, 2), s>>,
          <<p, Troll(6, 2), MakeItem("Lightning", 2, 1), s>>,
          <<p, Orc(5, 2), MakeItem("Heal", 1, 2), s>> }

----------------------------------------------------------------------------
(* Persistence: main.rs save_game and load_game.  serde_json writes a      *)
(* struct as an object of its fields in declaration order, None as null,   *)
(* Some(v) as v, a unit variant as its name, a struct variant as an object *)
(* with the variant name as its only key, a Vec or a tuple as an array;    *)
(* reading looks the fields up by name, a missing Option field is None.    *)
(* Glyphs and colours are not part of the entity model and are left out,   *)
(* as is the explored flag of a tile.                                      *)

JNull == [t |-> "null"]

JBool(b) == [t |-> "bool", v |-> b]

JNum(n) == [t |-> "num", v |-> n]

JStr(str) == [t |-> "str", v |-> str]

JArr(seq) == [t |-> "arr", v |-> seq]

JObj(pairs) == [t |-> "obj", v |-> pairs]

\* The value of a field of an object, null when the object has no such field
Get(j, field) ==
    LET hit == {i \in 1..Len(j.v) : j.v[i][1] = field}
    IN  IF hit = {} THEN JNull ELSE j.v[CHOOSE i \in hit : TRUE][2]

\* struct Game
Game(m, msgs, inv, level) ==
    [map |-> m, messages |-> msgs, inventory |-> inv, dungeon_level |-> level]

Fighter_serialize(f) ==
    JObj(<< <<"base_max_hp", JNum(f.base_max_hp)>>, <<"hp", JNum(f.hp)>>,
            <<"base_defense", JNum(f.base_defense)>>,
            <<"base_power", JNum(f.base_power)>>, <<"xp", JNum(f.xp)>>,
            <<"on_death", JStr(f.on_death)>> >>)

Fighter_deserialize(j) ==
    [base_max_hp |-> Get(j, "base_max_hp").v, hp |-> Get(j, "hp").v,
     base_defense |-> Get(j, "base_defense").v,
     base_power |-> Get(j, "base_power").v, xp |-> Get(j, "xp").v,
     on_death |-> Get(j, "on_death").v]

RECURSIVE Ai_serialize(_)
Ai_serialize(ai) ==
    IF ai.kind = "Basic" THEN JStr("Basic")
    ELSE JObj(<< <<"Confused",
                   JObj(<< <<"previous_ai", Ai_serialize(ai.previous_ai)>>,
                           <<"num_turns", JNum(ai.num_turns)>> >>)>> >>)

RECURSIVE Ai_deserialize(_)
Ai_deserialize(j) ==
    IF j.t = "str" THEN [kind |-> j.v]
    ELSE LET body == Get(j, "Confused")
         IN  [kind |-> "Confused",
              previous_ai |-> Ai_deserialize(Get(body, "previous_ai")),
              num_turns |-> Get(body, "num_turns").v]

Equipment_serialize(e) ==
    JObj(<< <<"slot", JStr(e.slot)>>, <<"equipped", JBool(e.equipped)>>,
            <<"power_bonus", JNum(e.power_bonus)>>,
            <<"defense_bonus", JNum(e.defense_bonus)>>,
            <<"max_hp_bonus", JNum(e.max_hp_bonus)>> >>)

Equipment_deserialize(j) ==
    [slot |-> Get(j, "slot").v, equipped |-> Get(j, "equipped").v,
     power_bonus |-> Get(j, "power_bonus").v,
     defense_bonus |-> Get(j, "defense_bonus").v,
     max_hp_bonus |-> Get(j, "max_hp_bonus").v]

\* Object written with its ai field skipped
Object_serialize_skip_ai(o) ==
    JObj(<< <<"x", JNum(o.x)>>, <<"y", JNum(o.y)>>, <<"name", JStr(o.name)>>,
            <<"blocks", JBool(o.blocks)>>, <<"alive", JBool(o.alive)>>,
            <<"fighter", IF IsSome(o.fighter)
                         THEN Fighter_serialize(Unwrap(o.fighter)) ELSE JNull>>,
            <<"item", IF IsSome(o.item) THEN JStr(Unwrap(o.item)) ELSE JNull>>,
            <<"always_visible", JBool(o.always_visible)>>,
            <<"level", JNum(o.level)>>,
            <<"equipment", IF IsSome(o.equipment)
                           THEN Equipment_serialize(Unwrap(o.equipment))
                           ELSE JNull>> >>)

\* #[derive(Serialize)] struct Object
Object_serialize(o) ==
    JObj(<< <<"x", JNum(o.x)>>, <<"y", JNum(o.y)>>, <<"name", JStr(o.name)>>,
            <<"blocks", JBool(o.blocks)>>, <<"alive", JBool(o.alive)>>,
            <<"fighter", IF IsSome(o.fighter)
                         THEN Fighter_serialize(Unwrap(o.fighter)) ELSE JNull>>,
            <<"ai", IF IsSome(o.ai) THEN Ai_serialize(Unwrap(o.ai)) ELSE JNull>>,
            <<"item", IF IsSome(o.item) THEN JStr(Unwrap(o.item)) ELSE JNull>>,
            <<"always_visible", JBool(o.always_visible)>>,
            <<"level", JNum(o.level)>>,
            <<"equipment", IF IsSome(o.equipment)
                           THEN Equipment_serialize(Unwrap(o.equipment))
                           ELSE JNull>> >>)

\* #[derive(Deserialize)] struct Object
Object_deserialize(j) ==
    [x |-> Get(j, "x").v, y |-> Get(j, "y").v, name |-> Get(j, "name").v,
     blocks |-> Get(j, "blocks").v, alive |-> Get(j, "alive").v,
     fighter |-> IF Get(j, "fighter") = JNull THEN None
                 ELSE Some(Fighter_deserialize(Get(j, "fighter"))),
     ai |-> IF Get(j, "ai") = JNull THEN None
            ELSE Some(Ai_deserialize(Get(j, "ai"))),
     item |-> IF Get(j, "item") = JNull THEN None ELSE Some(Get(j, "item").v),
     always_visible |-> Get(j, "always_visible").v,
     level |-> Get(j, "level").v,
     equipment |-> IF Get(j, "equipment") = JNull THEN None
                   ELSE Some(Equipment_deserialize(Get(j, "equipment")))]

Objects_serialize(objs) == JArr([k \in 1..Len(objs) |-> Object_serialize(objs[k])])

Objects_deserialize(j) == [k \in 1..Len(j.v) |-> Object_deserialize(j.v[k])]

\* Map = Vec<Vec<Tile>>, indexed [x][y], over the grid of the level
Map_serialize(m) ==
    JArr([x \in 1..ArenaWidth |->
            JArr([y \in 1..ArenaHeight |->
                    JObj(<< <<"blocked", JBool(Blocked(m, x - 1, y - 1))>>,
                            <<"block_sight", JBool(Blocked(m, x - 1, y - 1))>> >>)])])

Map_deserialize(j) ==
    {t \in (0..(Len(j.v) - 1)) \X (0..(Len(j.v[1].v) - 1)) :
        ~Get(j.v[t[1] + 1].v[t[2] + 1], "blocked").v}

\* #[derive(Serialize)] struct Game
Game_serialize(g) ==
    JObj(<< <<"map", Map_serialize(g.map)>>,
            <<"messages",
              JObj(<< <<"messages",
                        JArr([k \in 1..Len(g.messages) |-> JStr(g.messages[k])])>> >>)>>,
            <<"inventory", Objects_serialize(g.inventory)>>,
            <<"dungeon_level", JNum(g.dungeon_level)>> >>)

\* #[derive(Deserialize)] struct Game
Game_deserialize(j) ==
    LET msgs == Get(Get(j, "messages"), "messages")
    IN  Game(Map_deserialize(Get(j, "map")),
             [k \in 1..Len(msgs.v) |-> msgs.v[k].v],
             Objects_deserialize(Get(j, "inventory")),
             Get(j, "dungeon_level").v)

\* save_game: serde_json::to_string(&(game, objects)), written to the file
save_game(g, objs) == JArr(<<Game_serialize(g), Objects_serialize(objs)>>)

\* load_game: serde_json::from_str::<(Game, Vec<Object>)> of the file
load_game(file) ==
    [game |-> Game_deserialize(file.v[1]), objects |-> Objects_deserialize(file.v[2])]

\* A file whose text is not JSON, such as a save cut off while written
JInvalid == [t |-> "invalid"]

\* #[derive(Deserialize)] struct Object: the fields without a default must
\* be there with their type, an Option field is null or a value
Object_accepts(j) ==
    /\ j.t = "obj"
    /\ Get(j, "x").t = "num"
    /\ Get(j, "y").t = "num"
    /\ Get(j, "name").t = "str"
    /\ Get(j, "blocks").t = "bool"
    /\ Get(j, "alive").t = "bool"
    /\ Get(j, "fighter").t \in {"null", "obj"}
    /\ Get(j, "ai").t \in {"null", "str", "obj"}
    /\ Get(j, "item").t \in {"null", "str"}
    /\ Get(j, "always_visible").t = "bool"
    /\ Get(j, "level").t = "num"
    /\ Get(j, "equipment").t \in {"null", "obj"}

Objects_accepts(j) ==
    /\ j.t = "arr"
    /\ \A k \in 1..Len(j.v) : Object_accepts(j.v[k])

\* #[derive(Deserialize)] struct Game
Game_accepts(j) ==
    /\ j.t = "obj"
    /\ Get(j, "map").t = "arr"
    /\ Get(j, "messages").t = "obj"
    /\ Get(Get(j, "messages"), "messages").t = "arr"
    /\ Objects_accepts(Get(j, "inventory"))
    /\ Get(j, "dungeon_level").t = "num"

\* serde_json::from_str::<(Game, Vec<Object>)> returns Ok
from_str_accepts(j) ==
    /\ j.t = "arr"
    /\ Len(j.v) = 2
    /\ Game_accepts(j.v[1])
    /\ Objects_accepts(j.v[2])

\* load_game as a Result: Err when File::open or from_str fails (the `?`s)
try_load_game(savefile) ==
    IF ~IsSome(savefile) THEN [ok |-> FALSE]
    ELSE IF ~from_str_accepts(Unwrap(savefile)) THEN [ok |-> FALSE]
    ELSE [ok |-> TRUE, loaded |-> load_game(Unwrap(savefile))]

\* "Continue Last Game" with the result of load_game unwrapped: a failure
\* ends the program
main_menu_continue_unwrap(savefile) ==
    LET r == try_load_game(savefile)
    IN  IF r.ok
        THEN [phase |-> "play", started |-> TRUE, loaded |-> r.loaded]
        ELSE [phase |-> "quit", started |-> FALSE, msgbox |-> "panicked"]

\* main_menu: Some(1), "Continue Last Game"
main_menu_continue(savefile) ==
    LET r == try_load_game(savefile)
    IN  IF r.ok
        THEN [phase |-> "play", started |-> TRUE, loaded |-> r.loaded]
        ELSE [phase |-> "menu", started |-> FALSE, msgbox |-> "No saved game to load."]

----------------------------------------------------------------------------
(* Turn engine: main.rs play_game and handle_keys.  One action is one      *)
(* iteration of the game loop for one key.                                 *)

\* Largest experience the player may have banked before a key is handled
MaxXp == 70

Dirs == {-1, 0, 1} \X {-1, 0, 1}

PlayerPos == <<objects[PLAYER].x, objects[PLAYER].y>>

PlayerXp == Unwrap(objects[PLAYER].fighter).xp

\* render_all at the top of the iteration: compute_fov runs only when the
\* player is not where the previous iteration saw it
FovNow == IF previous_player_position # PlayerPos THEN PlayerPos ELSE fov_origin

StartSt == [objects |-> objects, inventory |-> inventory, messages |-> <<>>]

\* The random steps of the confused monsters, one per entity index
Rolls(objs) ==
    LET confused == {k \in 1..Len(objs) :
                        IsSome(objs[k].ai) /\ Unwrap(objs[k].ai).kind = "Confused"}
    IN  {[k \in 1..Len(objs) |-> IF k \in confused THEN g[k] ELSE <<0, 0>>] :
            g \in [confused -> Dirs]}

\* The monster phase guard letting the monsters move on once the player died
RunsMonsterPhase_after_death(objs, action) ==
    ~objs[PLAYER].alive \/ action # "DidntTakeTurn"

\* The monster phase guard without the test of the player's action
RunsMonsterPhase_any_action(objs, action) ==
    objs[PLAYER].alive

\* play_game: `objects[PLAYER].alive && player_action != DidntTakeTurn`
RunsMonsterPhase(objs, action) ==
    objs[PLAYER].alive /\ action # "DidntTakeTurn"

\* play_game: what follows handle_keys in an iteration that does not exit
Finish(st, action, k, rolls) ==
    LET mp == IF RunsMonsterPhase(st.objects, action)
              THEN MonsterPhase(st, 1, FovNow, map, rolls, {})
              ELSE [st |-> st, invoked |-> {}]
    IN  /\ objects' = mp.st.objects
        /\ inventory' = mp.st.inventory
        /\ messages' = mp.st.messages
        /\ player_action' = action
        /\ ai_invoked' = mp.invoked
        /\ fov_origin' = FovNow
        /\ previous_player_position' = PlayerPos
        /\ key' = k
        /\ UNCHANGED <<map, rooms, attempt, phase, hits, attacker, savegame,
                       dungeon_level, lookup, menu_answers>>

\* No tile: the targeting prompt was not shown, or it was aborted
NoClick == <<-1, -1>>

MoveKeys == {<<"Up", 0, -1>>, <<"Down", 0, 1>>, <<"Left", -1, 0>>, <<"Right", 1, 0>>}

\* handle_keys: Up, Down, Left, Right
KeyMove ==
    /\ phase = "play"
    /\ PlayerXp <= MaxXp
    /\ \E k \in MoveKeys : \E rolls \in Rolls(objects) :
          IF objects[PLAYER].alive
          THEN LET r == player_move_or_attack(StartSt, k[2], k[3], map)
               IN  Finish(r.st, r.action, k[1], rolls)
          ELSE Finish(StartSt, "DidntTakeTurn", k[1], rolls)
    /\ mouse' = NoClick

\* handle_keys: "d"; choice is what inventory_menu returned
KeyDrop ==
    /\ phase = "play"
    /\ \E choice \in {None} \cup {Some(i) : i \in 1..Len(inventory)} :
          IF objects[PLAYER].alive /\ IsSome(choice)
          THEN Finish(drop_item(StartSt, Unwrap(choice)), "DidntTakeTurn", "d",
                      [k \in 1..Len(objects) |-> <<0, 0>>])
          ELSE Finish(StartSt, "DidntTakeTurn", "d",
                      [k \in 1..Len(objects) |-> <<0, 0>>])
    /\ mouse' = NoClick

\* handle_keys: "g"
KeyPickUp ==
    /\ phase = "play"
    /\ LET item_id == Position({k \in 1..Len(objects) :
                                   /\ objects[k].x = objects[PLAYER].x
                                   /\ objects[k].y = objects[PLAYER].y
                                   /\ IsSome(objects[k].item)})
       IN  IF objects[PLAYER].alive /\ IsSome(item_id)
           THEN Finish(pick_item_up(StartSt, Unwrap(item_id)), "DidntTakeTurn",
                       "g", [k \in 1..Len(objects) |-> <<0, 0>>])
           ELSE Finish(StartSt, "DidntTakeTurn", "g",
                       [k \in 1..Len(objects) |-> <<0, 0>>])
    /\ mouse' = NoClick

\* The outcomes the targeting prompt of an item can end with
Clicks(item, fov) ==
    IF item = Some("Confuse")
    THEN {None} \cup {Some(t) : t \in {c \in ArenaTiles :
                        /\ TileAccepted(objects, fov, map, c,
                                        CONFUSE_RANGE * CONFUSE_RANGE)
                        /\ IsSome(MonsterAt(objects, c))}}
    ELSE IF item = Some("Fireball")
    THEN {None} \cup {Some(t) : t \in {c \in ArenaTiles :
                        TileAccepted(objects, fov, map, c, -1)}}
    ELSE {None}

\* handle_keys: "i"; choice is what inventory_menu returned
KeyUse ==
    /\ phase = "play"
    /\ PlayerXp <= MaxXp
    /\ \E choice \in {None} \cup {Some(i) : i \in 1..Len(inventory)} :
          IF objects[PLAYER].alive /\ IsSome(choice)
          THEN \E click \in Clicks(inventory[Unwrap(choice)].item, FovNow) :
                  /\ Finish(use_item(StartSt, Unwrap(choice), click, FovNow, map),
                            "DidntTakeTurn", "i",
                            [k \in 1..Len(objects) |-> <<0, 0>>])
                  /\ mouse' = IF IsSome(click) THEN Unwrap(click) ELSE NoClick
          ELSE /\ Finish(StartSt, "DidntTakeTurn", "i",
                         [k \in 1..Len(objects) |-> <<0, 0>>])
               /\ mouse' = NoClick

\* handle_keys: Alt+Enter, any other key, no key
KeyOther ==
    /\ phase = "play"
    /\ \E k \in {"Enter", "other"} :
          Finish(StartSt, "DidntTakeTurn", k, [i \in 1..Len(objects) |-> <<0, 0>>])
    /\ mouse' = NoClick

\* handle_keys: Escape; play_game saves and leaves the loop
KeyEscape ==
    /\ phase = "play"
    /\ player_action' = "Exit"
    /\ key' = "Escape"
    /\ phase' = "exited"
    /\ fov_origin' = FovNow
    /\ previous_player_position' = PlayerPos
    /\ ai_invoked' = {}
    /\ mouse' = NoClick
    /\ savegame' = Some(save_game(Game(map, messages, inventory, dungeon_level),
                                  objects))
    /\ UNCHANGED <<objects, inventory, messages, map, rooms, attempt, hits, attacker,
                   dungeon_level, lookup, menu_answers>>

\* main_menu: "Continue Last Game" once a game was saved; the game and the
\* entity list are those load_game returns
LoadGame ==
    /\ phase = "exited"
    /\ IsSome(savegame)
    /\ LET loaded == load_game(Unwrap(savegame))
       IN  /\ map' = loaded.game.map
           /\ messages' = loaded.game.messages
           /\ inventory' = loaded.game.inventory
           /\ dungeon_level' = loaded.game.dungeon_level
           /\ objects' = loaded.objects
    /\ phase' = "loaded"
    /\ UNCHANGED <<rooms, attempt, player_action, ai_invoked, fov_origin,
                   previous_player_position, key, hits, attacker, mouse, savegame,
                   lookup, menu_answers>>

\* new_game, on the level above
Init ==
    /\ objects \in ArenaObjects
    /\ inventory = <<>>
    /\ messages = <<"Welcome stranger!">>
    /\ map = ArenaMap
    /\ rooms = ArenaRooms
    /\ attempt = 0
    /\ player_action = "DidntTakeTurn"
    /\ ai_invoked = {}
    /\ fov_origin = <<-1, -1>>
    /\ previous_player_position = <<-1, -1>>
    /\ key = "none"
    /\ phase = "play"
    /\ hits = 0
    /\ attacker = 0
    /\ mouse = NoClick
    /\ savegame = None
    /\ dungeon_level = ArenaLevel(objects)
    /\ lookup = NoLookup
    /\ menu_answers = <<>>

Next ==
    KeyMove \/ KeyDrop \/ KeyPickUp \/ KeyUse \/ KeyOther \/ KeyEscape \/ LoadGame

Spec == Init /\ [][Next]_vars

----------------------------------------------------------------------------
(* Main menu: main.rs main_menu.  The program starts at the menu with any  *)
(* file, or none, under the name "savegame"; in the menu there is no game, *)
(* and `messages` holds the text of the message box the menu showed.       *)

\* What save_game writes for a new game with these entities
SaveOf(objs) ==
    save_game(Game(ArenaMap, <<"Welcome stranger!">>, <<>>, ArenaLevel(objs)), objs)

\* An object without one of its fields
DropField(j, field) ==
    LET keep(pair) == pair[1] # field
    IN  JObj(SelectSeq(j.v, keep))

\* Files that are not a whole save: cut off, the entity list missing, an
\* entity without its name, the game without its depth
Malformed(file) ==
    { JInvalid,
      JArr(<<file.v[1]>>),
      JArr(<<file.v[1], JArr(<<DropField(file.v[2].v[1], "name")>>)>>),
      JArr(<<DropField(file.v[1], "dungeon_level"), file.v[2]>>) }

SaveFiles ==
    {None} \cup {Some(SaveOf(objs)) : objs \in ArenaObjects}
           \cup {Some(f) : f \in UNION {Malformed(SaveOf(objs)) : objs \in ArenaObjects}}

InitMenu ==
    /\ objects = <<>>
    /\ inventory = <<>>
    /\ messages = <<>>
    /\ map = {}
    /\ rooms = ArenaRooms
    /\ attempt = 0
    /\ player_action = "DidntTakeTurn"
    /\ ai_invoked = {}
    /\ fov_origin = <<-1, -1>>
    /\ previous_player_position = <<-1, -1>>
    /\ key = "none"
    /\ phase = "menu"
    /\ hits = 0
    /\ attacker = 0
    /\ mouse = NoClick
    /\ savegame \in SaveFiles
    /\ dungeon_level = 0
    /\ lookup = NoLookup
    /\ menu_answers = <<>>

\* main_menu: Some(0), "Play a New Game"
MenuNewGame ==
    /\ phase = "menu"
    /\ objects' \in ArenaObjects
    /\ inventory' = <<>>
    /\ messages' = <<"Welcome stranger!">>
    /\ map' = ArenaMap
    /\ dungeon_level' = ArenaLevel(objects')
    /\ phase' = "play"
    /\ key' = "NewGame"
    /\ player_action' = "DidntTakeTurn"
    /\ ai_invoked' = {}
    /\ fov_origin' = <<-1, -1>>
    /\ previous_player_position' = <<-1, -1>>
    /\ UNCHANGED <<rooms, attempt, hits, attacker, mouse, savegame, lookup,
                   menu_answers>>

\* main_menu: Some(1), "Continue Last Game"
MenuContinue ==
    /\ phase = "menu"
    /\ LET r == main_menu_continue(savegame)
       IN  /\ phase' = r.phase
           /\ IF r.started
              THEN /\ map' = r.loaded.game.map
                   /\ messages' = r.loaded.game.messages
                   /\ inventory' = r.loaded.game.inventory
                   /\ dungeon_level' = r.loaded.game.dungeon_level
                   /\ objects' = r.loaded.objects
              ELSE /\ messages' = <<r.msgbox>>
                   /\ UNCHANGED <<map, inventory, dungeon_level, objects>>
    /\ key' = "Continue"
    /\ player_action' = "DidntTakeTurn"
    /\ ai_invoked' = {}
    /\ fov_origin' = <<-1, -1>>
    /\ previous_player_position' = <<-1, -1>>
    /\ UNCHANGED <<rooms, attempt, hits, attacker, mouse, savegame, lookup,
                   menu_answers>>

\* main_menu: Some(2), "Quit"
MenuQuit ==
    /\ phase = "menu"
    /\ phase' = "quit"
    /\ key' = "Quit"
    /\ UNCHANGED <<objects, inventory, messages, map, rooms, attempt, player_action,
                   ai_invoked, fov_origin, previous_player_position, hits, attacker,
                   mouse, savegame, dungeon_level, lookup, menu_answers>>

\* main_menu: play_game has returned, the game is dropped and the menu is
\* shown again
MenuAgain ==
    /\ phase = "exited"
    /\ phase' = "menu"
    /\ objects' = <<>>
    /\ inventory' = <<>>
    /\ messages' = <<>>
    /\ map' = {}
    /\ dungeon_level' = 0
    /\ key' = "none"
    /\ UNCHANGED <<rooms, attempt, player_action, ai_invoked, fov_origin,
                   previous_player_position, hits, attacker, mouse, savegame,
                   lookup, menu_answers>>

NextMenu ==
    MenuNewGame \/ MenuContinue \/ MenuQuit \/ MenuAgain \/ KeyOther \/ KeyEscape

SpecMenu == InitMenu /\ [][NextMenu]_vars

----------------------------------------------------------------------------
(* A game on the level above in which the player, down to 5 hit points     *)
(* after a Fireball, holds another Fireball scroll, enough to die of, and  *)
(* a sword, with an Orc in the other room.  The player handles items on    *)
(* the spot while alive; every key is pressed once it has died.            *)

InitDead ==
    /\ objects = <<[NewPlayer(1, 1) EXCEPT !.fighter[1].hp = 5], Orc(6, 2),
                   Stairs(5, 1)>>
    /\ inventory = <<MakeItem("Fireball", 1, 1), Sword(1, 1)>>
    /\ messages = <<>>
    /\ map = ArenaMap
    /\ rooms = ArenaRooms
    /\ attempt = 0
    /\ player_action = "DidntTakeTurn"
    /\ ai_invoked = {}
    /\ fov_origin = <<-1, -1>>
    /\ previous_player_position = <<-1, -1>>
    /\ key = "none"
    /\ phase = "play"
    /\ hits = 0
    /\ attacker = 0
    /\ mouse = NoClick
    /\ savegame = None
    /\ dungeon_level = ArenaLevel(objects \o inventory)
    /\ lookup = NoLookup
    /\ menu_answers = <<>>

\* handle_keys: Up, Down, Left, Right with player_alive = false
KeyMoveDead ==
    /\ ~objects[PLAYER].alive
    /\ KeyMove

NextDead ==
    KeyMoveDead \/ KeyDrop \/ KeyPickUp \/ KeyUse \/ KeyOther \/ KeyEscape

SpecDead == InitDead /\ [][NextDead]_vars

----------------------------------------------------------------------------
(* A game in which the player has gathered potions up to one short of the  *)
(* inventory capacity and stands on a potion and a sword; items are picked *)
(* up and dropped.                                                         *)

InitPack ==
    /\ objects = <<NewPlayer(1, 1), MakeItem("Heal", 1, 1), Sword(1, 1),
                   Stairs(5, 1)>>
    /\ inventory = [k \in 1..(MAX_INVENTORY - 1) |-> MakeItem("Heal", 1, 1)]
    /\ messages = <<>>
    /\ map = ArenaMap
    /\ rooms = ArenaRooms
    /\ attempt = 0
    /\ player_action = "DidntTakeTurn"
    /\ ai_invoked = {}
    /\ fov_origin = <<1, 1>>
    /\ previous_player_position = <<1, 1>>
    /\ key = "none"
    /\ phase = "play"
    /\ hits = 0
    /\ attacker = 0
    /\ mouse = NoClick
    /\ savegame = None
    /\ dungeon_level = ArenaLevel(objects)
    /\ lookup = NoLookup
    /\ menu_answers = <<>>

NextPack == KeyPickUp \/ KeyDrop

SpecPack == InitPack /\ [][NextPack]_vars

----------------------------------------------------------------------------
(* A game in which a wounded or sound player, new or after two level-ups   *)
(* spent on hit points, stands on a pile of two swords, a shield and two   *)
(* potions; items are picked up, dropped and used, and `attacker` keeps    *)
(* the inventory index the player chose.                                   *)

\* The player at level 1 and at level 3, sound and wounded
BagPlayers ==
    {[NewPlayer(1, 1) EXCEPT !.level = 1 + ups,
                             !.fighter[1].base_max_hp = @ + 20 * ups,
                             !.fighter[1].hp = IF wounded THEN 5 ELSE 30 + 20 * ups] :
        ups \in {0, 2}, wounded \in BOOLEAN}

InitBag ==
    /\ \E player \in BagPlayers :
          objects = <<player,
                      Sword(1, 1), MakeItem("Heal", 1, 1), Sword(1, 1),
                      Shield(1, 1), MakeItem("Heal", 1, 1), Stairs(5, 1)>>
    /\ inventory = <<>>
    /\ messages = <<"Welcome stranger!">>
    /\ map = ArenaMap
    /\ rooms = ArenaRooms
    /\ attempt = 0
    /\ player_action = "DidntTakeTurn"
    /\ ai_invoked = {}
    /\ fov_origin = <<-1, -1>>
    /\ previous_player_position = <<-1, -1>>
    /\ key = "none"
    /\ phase = "play"
    /\ hits = 0
    /\ attacker = 0
    /\ mouse = NoClick
    /\ savegame = None
    /\ dungeon_level = ArenaLevel(objects)
    /\ lookup = NoLookup
    /\ menu_answers = <<>>

\* handle_keys: "i", for the index inventory_menu returned
UseChosen ==
    /\ phase = "play"
    /\ objects[PLAYER].alive
    /\ \E i \in 1..Len(inventory) :
       \E click \in Clicks(inventory[i].item, FovNow) :
          LET st == use_item(StartSt, i, click, FovNow, map)
          IN  /\ objects' = st.objects
              /\ inventory' = st.inventory
              /\ messages' = st.messages
              /\ attacker' = i
              /\ mouse' = IF IsSome(click) THEN Unwrap(click) ELSE NoClick
    /\ player_action' = "DidntTakeTurn"
    /\ ai_invoked' = {}
    /\ fov_origin' = FovNow
    /\ previous_player_position' = PlayerPos
    /\ key' = "i"
    /\ UNCHANGED <<map, rooms, attempt, phase, hits, savegame, dungeon_level,
                   lookup, menu_answers>>

NextBag == KeyPickUp \/ KeyDrop \/ UseChosen

SpecBag == InitBag /\ [][NextBag]_vars

----------------------------------------------------------------------------
(* Combat harness: Object::attack applied to a pair of fighters whose      *)
(* stats are drawn from bounded sets.                                      *)

MaxStat == 6

MaxHp == 20

MaxHits == 5

Defender == 3 - attacker

\* A freshly built fighter of the given kind with some stats replaced
WithStats(o, hp, defense_, power_) ==
    [o EXCEPT !.fighter[1].base_max_hp = hp, !.fighter[1].hp = hp,
              !.fighter[1].base_defense = defense_,
              !.fighter[1].base_power = power_]

Equipped(o) == [o EXCEPT !.equipment[1].equipped = TRUE]

InitCombat ==
    /\ attacker \in {1, 2}
    /\ \E p \in 0..MaxStat, d \in 0..MaxStat, h \in 1..MaxHp,
          monster \in {Orc(2, 1), Troll(2, 1)} :
          objects =
             IF attacker = 1
             THEN <<WithStats(NewPlayer(1, 1), 30, 2, p),
                    WithStats(monster, h, d, Unwrap(monster.fighter).base_power)>>
             ELSE <<WithStats(NewPlayer(1, 1), h, d, 5),
                    WithStats(monster, Unwrap(monster.fighter).base_max_hp,
                              Unwrap(monster.fighter).base_defense, p)>>
    /\ inventory \in {<<>>, <<Equipped(Sword(1, 1))>>, <<Equipped(Shield(1, 1))>>}
    /\ messages = <<>>
    /\ map = ArenaMap
    /\ rooms = ArenaRooms
    /\ attempt = 0
    /\ player_action = "DidntTakeTurn"
    /\ ai_invoked = {}
    /\ fov_origin = <<-1, -1>>
    /\ previous_player_position = <<-1, -1>>
    /\ key = "none"
    /\ phase = "combat"
    /\ hits = 0
    /\ mouse = NoClick
    /\ savegame = None
    /\ dungeon_level = GenLevel
    /\ lookup = NoLookup
    /\ menu_answers = <<>>

\* attacker.attack(defender, game)
CombatAttack ==
    /\ phase = "combat"
    /\ hits < MaxHits
    /\ LET st == attack(StartSt, attacker, Defender)
       IN  /\ objects' = st.objects
           /\ inventory' = st.inventory
           /\ messages' = st.messages
    /\ hits' = hits + 1
    /\ UNCHANGED <<map, rooms, attempt, player_action, ai_invoked, fov_origin,
                   previous_player_position, key, phase, attacker, mouse, savegame,
                   dungeon_level, lookup, menu_answers>>

NextCombat == CombatAttack

SpecCombat == InitCombat /\ [][NextCombat]_vars

----------------------------------------------------------------------------
(* Fighter harness: the operations that change a Fighter (Object::attack,  *)
(* use_item with its effects, level_up) applied in any order to the player *)
(* and one monster standing in the first room.                             *)

\* Number of operations applied in one run
MaxOps == 4

\* Largest experience the player starts with
MaxStartXp == 1000

\* Largest number of times the level-up menu is shown for one level
MaxPrompts == 3

\* Experience at, just below and far beyond the first level-up threshold
XpCases == {0, level_up_xp(1) - 1, level_up_xp(1),
            level_up_xp(1) + level_up_xp(2), MaxStartXp}

InitFighter ==
    /\ \E xp \in XpCases, monster \in {Orc(2, 1), Troll(2, 2)} :
          objects = <<[NewPlayer(1, 1) EXCEPT !.fighter[1].xp = xp], monster>>
    /\ inventory = <<MakeItem("Heal", 1, 1), MakeItem("Fireball", 1, 1),
                     MakeItem("Lightning", 1, 1), Sword(1, 1)>>
    /\ messages = <<>>
    /\ map = ArenaMap
    /\ rooms = ArenaRooms
    /\ attempt = 0
    /\ player_action = "DidntTakeTurn"
    /\ ai_invoked = {}
    /\ fov_origin = <<1, 1>>
    /\ previous_player_position = <<1, 1>>
    /\ key = "none"
    /\ phase = "fighter"
    /\ hits = 0
    /\ attacker = 0
    /\ mouse = NoClick
    /\ savegame = None
    /\ dungeon_level = GenLevel
    /\ lookup = NoLookup
    /\ menu_answers = <<>>

\* The state an operation of the harness leaves
FighterDone(st, k, click) ==
    /\ objects' = st.objects
    /\ inventory' = st.inventory
    /\ messages' = st.messages
    /\ key' = k
    /\ mouse' = click
    /\ hits' = hits + 1
    /\ UNCHANGED <<map, rooms, attempt, player_action, ai_invoked, fov_origin,
                   previous_player_position, phase, attacker, savegame,
                   dungeon_level, lookup, menu_answers>>

\* a.attack(t, game) for the player and the monster, either way round
FighterAttack ==
    /\ phase = "fighter"
    /\ hits < MaxOps
    /\ \E a \in {1, 2} : FighterDone(attack(StartSt, a, 3 - a), "attack", NoClick)

\* use_item on any item of the inventory
FighterUse ==
    /\ phase = "fighter"
    /\ hits < MaxOps
    /\ \E i \in 1..Len(inventory) :
       \E click \in Clicks(inventory[i].item, fov_origin) :
          FighterDone(use_item(StartSt, i, click, fov_origin, map), "i",
                      IF IsSome(click) THEN Unwrap(click) ELSE NoClick)

\* What menu can return for the three options of level_up, prompt after
\* prompt: None for any key that is not a, b or c, until one of them is hit
MenuAnswers ==
    {[i \in 1..n |-> IF i < n THEN None ELSE Some(c)] :
        n \in 1..MaxPrompts, c \in 0..2}

\* level_up; the menu is shown only with enough experience for the next level
FighterLevelUp ==
    /\ phase = "fighter"
    /\ hits < MaxOps
    /\ \E answers \in IF PlayerXp >= level_up_xp(objects[PLAYER].level)
                      THEN MenuAnswers ELSE {<<>>} :
          LET st == level_up(StartSt, IF answers = <<>> THEN 0
                                      ELSE Unwrap(ask_choice(answers)))
          IN  /\ objects' = st.objects
              /\ inventory' = st.inventory
              /\ messages' = st.messages
              /\ menu_answers' = answers
    /\ key' = "level_up"
    /\ mouse' = NoClick
    /\ hits' = hits + 1
    /\ UNCHANGED <<map, rooms, attempt, player_action, ai_invoked, fov_origin,
                   previous_player_position, phase, attacker, savegame,
                   dungeon_level, lookup>>

NextFighter == FighterAttack \/ FighterUse \/ FighterLevelUp

SpecFighter == InitFighter /\ [][NextFighter]_vars

----------------------------------------------------------------------------
(* The first moves of a new game in a start room of the largest size: the  *)
(* player stands at the centre, on a Lightning scroll, with one monster    *)
(* somewhere in the room; the scroll is picked up and used.                *)

Hall == Rect_new(0, 0, ROOM_MAX_SIZE, ROOM_MAX_SIZE)

InitHall ==
    /\ \E x \in (Hall.x1 + 1)..(Hall.x2 - 1), y \in (Hall.y1 + 1)..(Hall.y2 - 1),
          kind \in MonsterKinds :
          /\ <<x, y>> # center(Hall)
          /\ objects = <<NewPlayer(center(Hall)[1], center(Hall)[2]),
                         IF kind = "Orc" THEN Orc(x, y) ELSE Troll(x, y),
                         MakeItem("Lightning", center(Hall)[1], center(Hall)[2]),
                         Stairs(center(Hall)[1], center(Hall)[2])>>
    /\ inventory = <<>>
    /\ messages = <<"Welcome stranger!">>
    /\ map = create_room(Hall, {})
    /\ rooms = <<Hall>>
    /\ attempt = 0
    /\ player_action = "DidntTakeTurn"
    /\ ai_invoked = {}
    /\ fov_origin = <<-1, -1>>
    /\ previous_player_position = <<-1, -1>>
    /\ key = "none"
    /\ phase = "play"
    /\ hits = 0
    /\ attacker = 0
    /\ mouse = NoClick
    /\ savegame = None
    /\ dungeon_level = ArenaLevel(objects)
    /\ lookup = NoLookup
    /\ menu_answers = <<>>

NextHall == KeyPickUp \/ KeyUse \/ KeyDrop

SpecHall == InitHall /\ [][NextHall]_vars

----------------------------------------------------------------------------
(* The same room with two monsters anywhere in it and the player at the    *)
(* centre, holding two Lightning scrolls, which are used.                  *)

InitBolt ==
    /\ \E a \in create_room(Hall, {}), b \in create_room(Hall, {}),
          first \in MonsterKinds, second \in MonsterKinds :
          /\ a # b
          /\ a # center(Hall)
          /\ b # center(Hall)
          /\ objects = <<NewPlayer(center(Hall)[1], center(Hall)[2]),
                         IF first = "Orc" THEN Orc(a[1], a[2]) ELSE Troll(a[1], a[2]),
                         IF second = "Orc" THEN Orc(b[1], b[2]) ELSE Troll(b[1], b[2]),
                         Stairs(center(Hall)[1], center(Hall)[2])>>
    /\ inventory = <<MakeItem("Lightning", 1, 1), MakeItem("Lightning", 1, 1)>>
    /\ messages = <<"Welcome stranger!">>
    /\ map = create_room(Hall, {})
    /\ rooms = <<Hall>>
    /\ attempt = 0
    /\ player_action = "DidntTakeTurn"
    /\ ai_invoked = {}
    /\ fov_origin = <<-1, -1>>
    /\ previous_player_position = <<-1, -1>>
    /\ key = "none"
    /\ phase = "play"
    /\ hits = 0
    /\ attacker = 0
    /\ mouse = NoClick
    /\ savegame = None
    /\ dungeon_level = ArenaLevel(objects)
    /\ lookup = NoLookup
    /\ menu_answers = <<>>

NextBolt == UseChosen

SpecBolt == InitBolt /\ [][NextBolt]_vars

----------------------------------------------------------------------------
(* AI harness: ai_take_turn called for one monster at a time, as the       *)
(* monster phase of play_game does, on the two-room level with the player  *)
(* and two monsters on any three floor tiles.  The field of view is the    *)
(* one render_all computed before the key was handled: from the player's   *)
(* tile, or from the tile next to it the player has just left.             *)

AiPhases == {"ai", "idle", "chase", "adjacent", "spent"}

\* The tiles the player can have come from with one movement key
CameFrom(p) ==
    {p} \cup {t \in ArenaMap : \E k \in MoveKeys : t = <<p[1] - k[2], p[2] - k[3]>>}

InitAi ==
    /\ \E p \in ArenaMap, a \in ArenaMap, b \in ArenaMap :
          /\ a # b
          /\ a # p
          /\ b # p
          /\ objects = <<NewPlayer(p[1], p[2]), Orc(a[1], a[2]), Troll(b[1], b[2]),
                         Stairs(center(ArenaRooms[2])[1], center(ArenaRooms[2])[2])>>
          /\ fov_origin \in CameFrom(p)
    /\ inventory = <<>>
    /\ messages = <<"Welcome stranger!">>
    /\ map = ArenaMap
    /\ rooms = ArenaRooms
    /\ attempt = 0
    /\ player_action = "TookTurn"
    /\ ai_invoked = {}
    /\ previous_player_position = fov_origin
    /\ key = "none"
    /\ phase = "ai"
    /\ hits = 0
    /\ attacker = 0
    /\ mouse = NoClick
    /\ savegame = None
    /\ dungeon_level = ArenaLevel(objects)
    /\ lookup = NoLookup
    /\ menu_answers = <<>>

\* play_game: one pass of the body of `for id in 0..objects.len()` for an
\* entity with an AI; attacker is that entity, phase the branch it took
AiTurn ==
    /\ phase \in AiPhases
    /\ \E id \in {k \in 1..Len(objects) : IsSome(objects[k].ai)} :
          LET st == ai_take_turn(StartSt, id, fov_origin, map)
          IN  /\ objects' = st.objects
              /\ inventory' = st.inventory
              /\ messages' = st.messages
              /\ attacker' = id
              /\ ai_invoked' = {id}
              /\ phase' = AiBranch(objects, id, fov_origin, map)
    /\ UNCHANGED <<map, rooms, attempt, player_action, fov_origin,
                   previous_player_position, key, hits, mouse, savegame,
                   dungeon_level, lookup, menu_answers>>

NextAi == AiTurn

SpecAi == InitAi /\ [][NextAi]_vars

----------------------------------------------------------------------------
(* Threshold tables: item.rs from_dungeon_level, called with a table       *)
(* sorted by level and a depth; the tables are those of place_objects and  *)
(* all sorted tables over small sets of levels and values.                 *)

\* Largest depth a table is looked up for
MaxDepth == 9

\* Largest number of entries, level and value of a table drawn freely
MaxEntries == 3

MaxTableLevel == 3

MaxTableValue == 2

ProgramTables ==
    {MaxMonstersTable, TrollTable, MaxItemsTable}
       \cup {ItemTable(kind) : kind \in ItemKinds \ {"Heal"}}

SortedTables ==
    {t \in SeqsUpTo([level : 1..MaxTableLevel, value : 0..MaxTableValue], MaxEntries) :
        \A k \in 1..(Len(t) - 1) : t[k].level <= t[k + 1].level}

InitTable ==
    /\ objects = <<>>
    /\ inventory = <<>>
    /\ messages = <<>>
    /\ map = {}
    /\ rooms = <<>>
    /\ attempt = 0
    /\ player_action = "DidntTakeTurn"
    /\ ai_invoked = {}
    /\ fov_origin = <<-1, -1>>
    /\ previous_player_position = <<-1, -1>>
    /\ key = "none"
    /\ phase = "table"
    /\ hits = 0
    /\ attacker = 0
    /\ mouse = NoClick
    /\ savegame = None
    /\ dungeon_level \in 0..MaxDepth
    /\ \E table \in ProgramTables \cup SortedTables :
          lookup = [table |-> table, level |-> dungeon_level, value |-> None]
    /\ menu_answers = <<>>

\* from_dungeon_level(table, level)
TableLookup ==
    /\ phase = "table"
    /\ lookup' = [lookup EXCEPT
                     !.value = Some(from_dungeon_level(lookup.table, lookup.level))]
    /\ phase' = "looked"
    /\ UNCHANGED <<objects, inventory, messages, map, rooms, attempt, player_action,
                   ai_invoked, fov_origin, previous_player_position, key, hits,
                   attacker, mouse, savegame, dungeon_level, menu_answers>>

NextTable == TableLookup

SpecTable == InitTable /\ [][NextTable]_vars

----------------------------------------------------------------------------
(* Dungeon generator: game.rs Game::make_map, on a grid and with room      *)
(* sizes scaled down from MAP_WIDTH x MAP_HEIGHT, ROOM_MIN_SIZE,           *)
(* ROOM_MAX_SIZE and MAX_ROOMS.  One action is one iteration of the loop   *)
(* over the room attempts.                                                 *)

GenWidth == 6

GenHeight == 5

GenRoomMin == 2

GenRoomMax == 3

GenMaxRooms == 3

\* The entity lists make_map is called with: the player alone, as new_game
\* builds it, and the list of a level that was played (the call for the
\* next level is not part of the sources), with a wounded monster, a scroll
\* that the first level does not hold, and that level's stairs
GenInputs ==
    {<<NewPlayer(0, 0)>>,
     <<[NewPlayer(2, 1) EXCEPT !.fighter[1].hp = 12],
       [Orc(1, 1) EXCEPT !.fighter[1].hp = 5],
       MakeItem("Confuse", 2, 2),
       Stairs(3, 2)>>}

\* Vec::truncate
truncate(objs, len) == SubSeq(objs, 1, Min(len, Len(objs)))

InitGen ==
    /\ objects \in GenInputs
    /\ inventory = <<>>
    /\ messages = <<>>
    /\ map = {}
    /\ rooms = <<>>
    /\ attempt = 0
    /\ player_action = "DidntTakeTurn"
    /\ ai_invoked = {}
    /\ fov_origin = <<-1, -1>>
    /\ previous_player_position = <<-1, -1>>
    /\ key = "none"
    /\ phase = "new"
    /\ hits = 0
    /\ attacker = 0
    /\ mouse = NoClick
    /\ savegame = None
    /\ dungeon_level = GenLevel
    /\ lookup = NoLookup
    /\ menu_answers = <<>>

\* make_map, up to the loop: a map of walls, the entity list cut down to
\* its first element, no room
GenStart ==
    /\ phase = "new"
    /\ map' = {}
    /\ objects' = truncate(objects, 1)
    /\ rooms' = <<>>
    /\ phase' = "gen"
    /\ UNCHANGED <<inventory, messages, attempt, player_action, ai_invoked,
                   fov_origin, previous_player_position, key, hits, attacker, mouse,
                   savegame, dungeon_level, lookup, menu_answers>>

\* The iteration of make_map that puts the player at the corner of the first
\* room instead of its centre
RoomResult_corner(new_room, coin, monster_draws, item_draws) ==
    LET failed == \E k \in 1..Len(rooms) : intersects_with(new_room, rooms[k])
        carved == create_room(new_room, map)
        placed == place_objects(new_room, carved, objects, monster_draws, item_draws)
        new == center(new_room)
    IN  IF failed
        THEN [rooms |-> rooms, map |-> map, objects |-> objects]
        ELSE [rooms |-> Append(rooms, new_room),
              map |-> IF rooms = <<>> THEN carved
                      ELSE Connect(center(rooms[Len(rooms)]), new, coin, carved),
              objects |-> IF rooms = <<>>
                          THEN [placed EXCEPT ![PLAYER].x = new_room.x1,
                                              ![PLAYER].y = new_room.y1]
                          ELSE placed]

\* make_map: what one iteration of `for _ in 0..MAX_ROOMS` leaves, for the
\* room, the coin and the place_objects draws the random generator gave
RoomResult(new_room, coin, monster_draws, item_draws) ==
    LET failed == \E k \in 1..Len(rooms) : intersects_with(new_room, rooms[k])
        carved == create_room(new_room, map)
        placed == place_objects(new_room, carved, objects, monster_draws, item_draws)
        new == center(new_room)
    IN  IF failed
        THEN [rooms |-> rooms, map |-> map, objects |-> objects]
        ELSE [rooms |-> Append(rooms, new_room),
              map |-> IF rooms = <<>> THEN carved
                      ELSE Connect(center(rooms[Len(rooms)]), new, coin, carved),
              objects |-> IF rooms = <<>>
                          THEN [placed EXCEPT ![PLAYER].x = new[1],
                                              ![PLAYER].y = new[2]]
                          ELSE placed]

\* The draws place_objects gets for the monsters and for the items; it is
\* not called for a room that intersects another
MonsterDraws(room) ==
    IF \E k \in 1..Len(rooms) : intersects_with(room, rooms[k]) THEN {<<>>}
    ELSE Draws(room, {k \in MonsterKinds : monster_chances(k, GenLevel) > 0},
               max_monsters(GenLevel))

ItemDraws(room) ==
    IF \E k \in 1..Len(rooms) : intersects_with(room, rooms[k]) THEN {<<>>}
    ELSE Draws(room, {k \in ItemKinds : item_chances(k, GenLevel) > 0},
               max_items(GenLevel))

\* The coin is flipped for an accepted room that is not the first
Coins(room) ==
    IF rooms = <<>> \/ \E k \in 1..Len(rooms) : intersects_with(room, rooms[k])
    THEN {FALSE}
    ELSE BOOLEAN

\* make_map: the body of `for _ in 0..MAX_ROOMS`
GenRoom ==
    /\ phase = "gen"
    /\ attempt < GenMaxRooms
    /\ \E w \in GenRoomMin..GenRoomMax, h \in GenRoomMin..GenRoomMax :
       \E x \in 0..(GenWidth - w - 1), y \in 0..(GenHeight - h - 1) :
       \E coin \in Coins(Rect_new(x, y, w, h)) :
       \E monster_draws \in MonsterDraws(Rect_new(x, y, w, h)) :
       \E item_draws \in ItemDraws(Rect_new(x, y, w, h)) :
          LET r == RoomResult(Rect_new(x, y, w, h), coin, monster_draws, item_draws)
          IN  /\ rooms' = r.rooms
              /\ map' = r.map
              /\ objects' = r.objects
    /\ attempt' = attempt + 1
    /\ UNCHANGED <<inventory, messages, player_action, ai_invoked, fov_origin,
                   previous_player_position, key, phase, hits, attacker, mouse,
                   savegame, dungeon_level, lookup, menu_answers>>

\* make_map: the stairs, once the attempts are used up
GenStairs ==
    /\ phase = "gen"
    /\ attempt = GenMaxRooms
    /\ LET last == center(rooms[Len(rooms)])
       IN  objects' = Append(objects, Stairs(last[1], last[2]))
    /\ phase' = "generated"
    /\ UNCHANGED <<inventory, messages, map, rooms, attempt, player_action,
                   ai_invoked, fov_origin, previous_player_position, key, hits,
                   attacker, mouse, savegame, dungeon_level, lookup,
                   menu_answers>>

NextGen == GenStart \/ GenRoom \/ GenStairs

SpecGen == InitGen /\ [][NextGen]_vars

\* Number of single steps taken on a generated level
MaxWalk == 2

\* Object::move_by for any entity that moves (the player by a key, a monster
\* by move_towards or by a random step) and any step of at most one tile
\* per axis, on the level make_map returned
GenWalk ==
    /\ phase \in {"generated", "walk"}
    /\ hits < MaxWalk
    /\ \E id \in {k \in 1..Len(objects) : IsSome(objects[k].fighter)}, d \in Dirs :
          objects' = move_by(id, d[1], d[2], map, objects)
    /\ hits' = hits + 1
    /\ phase' = "walk"
    /\ UNCHANGED <<inventory, messages, map, rooms, attempt, player_action,
                   ai_invoked, fov_origin, previous_player_position, key, attacker,
                   mouse, savegame, dungeon_level, lookup, menu_answers>>

NextGenWalk == GenStart \/ GenRoom \/ GenStairs \/ GenWalk

SpecGenWalk == InitGen /\ [][NextGenWalk]_vars


----------------------------------------------------------------------------
(* Properties *)

Slots == {"LeftHand", "RightHand"}

\* Inventory indices of the items equipped in a slot
EquippedIn(inv, slot) ==
    {i \in 1..Len(inv) : /\ inv[i].equipment # <<>>
                         /\ inv[i].equipment[1].equipped
                         /\ inv[i].equipment[1].slot = slot}

\* C1: whatever is picked up, dropped or toggled, the inventory holds at
\* most one equipped item per equipment slot.
C1_OneEquippedPerSlot ==
    \A slot \in Slots : Cardinality(EquippedIn(inventory, slot)) <= 1

\* C2: toggling on an unequipped inventory item whose slot is occupied by
\* another equipped item leaves exactly one equipped item in that slot, the
\* newly equipped one.
C2_EquipReplacesOccupant ==
    [][\A i \in 1..Len(inventory) :
          ( /\ key' = "i"
            /\ Len(inventory') = Len(inventory)
            /\ inventory[i].equipment # <<>>
            /\ ~inventory[i].equipment[1].equipped
            /\ inventory'[i].equipment[1].equipped
            /\ EquippedIn(inventory, inventory[i].equipment[1].slot) # {} )
          => EquippedIn(inventory', inventory[i].equipment[1].slot) = {i}]_vars

IsMonster(o) == o.fighter # <<>> /\ o.name # "Player"

\* The monsters of an entity list, with multiplicity, whatever their index
MonstersOf(objs) ==
    LET idx == {k \in 1..Len(objs) : IsMonster(objs[k])}
    IN  [r \in {objs[k] : k \in idx} |-> Cardinality({k \in idx : objs[k] = r})]

MonsterPositions(objs) ==
    LET idx == {k \in 1..Len(objs) : IsMonster(objs[k])}
    IN  [r \in {<<objs[k].x, objs[k].y>> : k \in idx} |->
            Cardinality({k \in idx : <<objs[k].x, objs[k].y>> = r})]

\* C5 as stated: in an iteration whose result is DidntTakeTurn no AI
\* controller is invoked and no monster's state changes.
C5_NoTurnNoMonsterChange ==
    [][player_action' = "DidntTakeTurn"
          => /\ ai_invoked' = {}
             /\ MonstersOf(objects') = MonstersOf(objects)]_vars

\* C5 amended: in an iteration whose result is DidntTakeTurn no AI
\* controller is invoked and no monster moves; a monster's state changes
\* only as the effect of an item used from the inventory.
C5_NoTurnNoMonsterPhase ==
    [][player_action' = "DidntTakeTurn"
          => /\ ai_invoked' = {}
             /\ MonsterPositions(objects') = MonsterPositions(objects)
             /\ key' # "i" => MonstersOf(objects') = MonstersOf(objects)]_vars

\* An item was picked up without a turn being taken while a monster with an
\* AI stood on the level.
C5_Witness ==
    /\ phase = "play"
    /\ key = "g"
    /\ player_action = "DidntTakeTurn"
    /\ Len(inventory) > 0
    /\ ai_invoked = {}
    /\ \E k \in 1..Len(objects) : objects[k].ai # <<>> /\ objects[k].alive

KeyDelta(k) ==
    CASE k = "Up" -> <<0, -1>>
      [] k = "Down" -> <<0, 1>>
      [] k = "Left" -> <<-1, 0>>
      [] k = "Right" -> <<1, 0>>
      [] OTHER -> <<0, 0>>

\* C6: a movement key whose destination is blocked terrain, or holds a
\* blocking entity without a Fighter, yields DidntTakeTurn and no monster
\* phase.
C6_BlockedMoveTakesNoTurn ==
    [][LET x == objects[PLAYER].x + KeyDelta(key')[1]
           y == objects[PLAYER].y + KeyDelta(key')[2]
       IN  ( /\ phase = "play"
             /\ key' \in {"Up", "Down", "Left", "Right"}
             /\ objects[PLAYER].alive
             /\ \/ <<x, y>> \notin map
                \/ \E k \in 1..Len(objects) :
                      /\ objects[k].blocks /\ objects[k].fighter = <<>>
                      /\ objects[k].x = x /\ objects[k].y = y )
           => /\ player_action' = "DidntTakeTurn"
              /\ ai_invoked' = {}]_vars

\* Effective power and defense: the base value plus, for the player, the
\* bonuses of the equipped inventory items
Bonus(o, inv, field) ==
    IF o.name = "Player"
    THEN SumSeq([i \in 1..Len(inv) |->
                    IF inv[i].equipment # <<>> /\ inv[i].equipment[1].equipped
                    THEN inv[i].equipment[1][field]
                    ELSE 0])
    ELSE 0

\* C7: an attack with damage = attacker power - defender defense leaves the
\* defender's hp unchanged when damage <= 0 and lowers it by exactly damage,
\* floored at 0, when damage > 0; hp is never negative.
C7_DamageRule ==
    [][hits' = hits + 1
          => LET a == objects[attacker]
                 d == objects[Defender]
                 damage == (a.fighter[1].base_power + Bonus(a, inventory, "power_bonus"))
                           - (d.fighter[1].base_defense
                              + Bonus(d, inventory, "defense_bonus"))
                 hp == d.fighter[1].hp
                 hp_after == objects'[Defender].fighter[1].hp
             IN  /\ hp_after >= 0
                 /\ damage <= 0 => hp_after = hp
                 /\ damage > 0 => hp_after = (IF hp > damage THEN hp - damage ELSE 0)]_vars

\* One attack was made whose damage exceeded the defender's hp, which is 0 now.
C7_Witness ==
    /\ phase = "combat"
    /\ hits = 1
    /\ objects[Defender].fighter[1].hp = 0
    /\ objects[Defender].fighter[1].base_max_hp
          < (objects[attacker].fighter[1].base_power
               + Bonus(objects[attacker], inventory, "power_bonus"))
            - (objects[Defender].fighter[1].base_defense
               + Bonus(objects[Defender], inventory, "defense_bonus"))

\* C8: each monster's xp is added to the player's xp at most once, so the
\* player never holds more xp than the dead monsters were worth together.
C8_XpGrantedOnce ==
    phase = "play"
       => PlayerXp <= SumSeq([k \in 1..Len(objects) |->
                                 IF IsMonster(objects[k]) /\ objects[k].fighter[1].hp = 0
                                 THEN objects[k].fighter[1].xp
                                 ELSE 0])

\* C9: a monster whose hp is 0 is an inert corpse: not alive, always
\* visible, not blocking, without AI, and its AI controller is not invoked.
C9_CorpseInert ==
    \A k \in 1..Len(objects) :
        (IsMonster(objects[k]) /\ objects[k].fighter[1].hp = 0)
           => /\ ~objects[k].alive
              /\ objects[k].always_visible
              /\ ~objects[k].blocks
              /\ objects[k].ai = <<>>
              /\ k \notin ai_invoked

\* The scenario of C10: the new player, unarmed, attacks a fresh Orc
C10_Scenario ==
    /\ phase = "combat"
    /\ attacker = 1
    /\ inventory = <<>>
    /\ objects[1].fighter[1].base_max_hp = 30
    /\ objects[1].fighter[1].hp = 30
    /\ objects[1].fighter[1].base_power = 5
    /\ objects[1].fighter[1].base_defense = 2
    /\ objects[2].fighter[1].base_max_hp = 20
    /\ objects[2].fighter[1].base_defense = 0
    /\ objects[2].fighter[1].base_power = 4
    /\ objects[2].fighter[1].xp = 35

\* C10: in that scenario the Orc's hp goes 20, 15, 10, 5, 0 over four
\* attacks; until the fourth it stands and the player has gained nothing, on
\* the fourth it is a non-blocking, always-visible corpse and the player's
\* xp has grown by exactly 35.
C10_OrcInFourHits ==
    C10_Scenario
       => /\ hits <= 4 => objects[2].fighter[1].hp = 20 - 5 * hits
          /\ hits < 4 => /\ objects[2].alive
                         /\ objects[2].blocks
                         /\ objects[2].ai # <<>>
                         /\ objects[1].fighter[1].xp = 0
          /\ hits = 4 => /\ ~objects[2].alive
                         /\ ~objects[2].blocks
                         /\ objects[2].always_visible
                         /\ objects[1].fighter[1].xp = 35

C10_Witness ==
    /\ C10_Scenario
    /\ hits = 4
    /\ objects[2].fighter[1].hp = 0
    /\ ~objects[2].blocks
    /\ objects[1].fighter[1].xp = 35

HasMsg(msgs, m) == \E i \in 1..Len(msgs) : msgs[i] = m

\* C11: every entity with a Fighter component has 0 <= hp <= effective max
\* hp (base max hp plus the max-hp bonuses of the equipped items), whatever
\* attacks, Lightning, Fireball, Heal, level-up choices and equipment
\* toggles were applied.
C11_HpWithinBounds ==
    \A k \in 1..Len(objects) :
        objects[k].fighter # <<>>
           => /\ 0 <= objects[k].fighter[1].hp
              /\ objects[k].fighter[1].hp
                    <= objects[k].fighter[1].base_max_hp
                         + Bonus(objects[k], inventory, "max_hp_bonus")

\* A wounded player was healed up to the effective maximum.
C11_Witness ==
    /\ phase = "fighter"
    /\ key = "i"
    /\ HasMsg(messages, "Your wounds start to feel better!")
    /\ objects[PLAYER].fighter[1].hp
          = objects[PLAYER].fighter[1].base_max_hp
              + Bonus(objects[PLAYER], inventory, "max_hp_bonus")

\* C15: with threshold = 200 + level * 150, a level-up check at xp >=
\* threshold raises the level by one and subtracts exactly one threshold
\* (xp = threshold leaves 0, more leaves the overflow); at xp < threshold,
\* xp = threshold - 1 included, level and xp stay as they are.
C15_LevelUpRule ==
    [][key' = "level_up"
          => LET level == objects[PLAYER].level
                 xp == objects[PLAYER].fighter[1].xp
                 threshold == 200 + level * 150
                 level_after == objects'[PLAYER].level
                 xp_after == objects'[PLAYER].fighter[1].xp
             IN  /\ xp >= threshold => /\ level_after = level + 1
                                       /\ xp_after = xp - threshold
                 /\ xp = threshold => xp_after = 0
                 /\ xp < threshold => /\ level_after = level
                                      /\ xp_after = xp
                                      /\ objects' = objects]_vars

\* Two checks in a row levelled the player up twice: the first kept the
\* overflow, the second met its threshold exactly and left no xp.
C15_Witness ==
    /\ phase = "fighter"
    /\ key = "level_up"
    /\ hits = 2
    /\ objects[PLAYER].level = 3
    /\ objects[PLAYER].fighter[1].xp = 0

\* C12: the first entity of the entity list is the player, whatever was
\* generated, picked up (swap_remove) or dropped (push).
C12_PlayerFirst ==
    /\ Len(objects) >= 1
    /\ objects[PLAYER].name = "Player"
    /\ objects[PLAYER].fighter # <<>>
    /\ objects[PLAYER].fighter[1].on_death = "Player"

\* An item that was not the last entity was picked up, so the last entity,
\* the stairs, was swapped into its place.
C12_Witness ==
    /\ phase = "play"
    /\ key = "g"
    /\ Len(inventory) = 1
    /\ Len(objects) = 3
    /\ objects[2].name = "Stairs"

\* C13: a Fireball on the chosen tile takes 25 hp, down to 0 at least,
\* from every entity with a Fighter within Euclidean distance 3 of the
\* tile, the player included, and leaves the hp of every entity farther
\* away as it was.
C13_FireballRadius ==
    [][(key' = "i" /\ HasMsg(messages', "The fireball explodes"))
          => /\ Len(objects') = Len(objects)
             /\ \A k \in 1..Len(objects) :
                   objects[k].fighter # <<>>
                      => LET hp == objects[k].fighter[1].hp
                             dx == objects[k].x - mouse'[1]
                             dy == objects[k].y - mouse'[2]
                         IN  objects'[k].fighter[1].hp =
                                IF dx * dx + dy * dy <= 3 * 3
                                THEN (IF hp > 25 THEN hp - 25 ELSE 0)
                                ELSE hp]_vars

\* A Fireball burned the player while a monster more than 3 tiles from the
\* chosen tile kept its hp.
C13_Witness ==
    /\ key = "i"
    /\ HasMsg(messages, "The fireball explodes")
    /\ objects[PLAYER].fighter[1].hp = 5
    /\ \E k \in 1..Len(objects) :
          /\ IsMonster(objects[k])
          /\ objects[k].fighter[1].hp = objects[k].fighter[1].base_max_hp
          /\ (objects[k].x - mouse[1]) * (objects[k].x - mouse[1])
                + (objects[k].y - mouse[2]) * (objects[k].y - mouse[2]) > 9

C16_LightningWithinRange ==
    [][key' = "i"
          => LET struck == {k \in 1..Len(objects) :
                              /\ objects[k].fighter # <<>>
                              /\ objects'[k].fighter[1].hp # objects[k].fighter[1].hp}
                 dist2(k) == (objects[k].x - objects[PLAYER].x)
                                * (objects[k].x - objects[PLAYER].x)
                             + (objects[k].y - objects[PLAYER].y)
                                * (objects[k].y - objects[PLAYER].y)
             IN  HasMsg(messages', "A lightning bolt strikes")
                    => /\ Len(objects') = Len(objects)
                       /\ Cardinality(struck) <= 1
                       /\ \E k \in 2..Len(objects) :
                             /\ struck \subseteq {k}
                             /\ objects[k].fighter # <<>>
                             /\ objects[k].ai # <<>>
                             /\ is_in_fov(FovNow, map, objects[k].x, objects[k].y)
                             /\ dist2(k) <= 5 * 5]_vars

C18_InventoryCap ==
    [][/\ ( /\ key' = "g"
            /\ Len(inventory) >= 26
            /\ \E k \in 1..Len(objects) :
                  /\ objects[k].item # <<>>
                  /\ objects[k].x = objects[PLAYER].x
                  /\ objects[k].y = objects[PLAYER].y )
          => /\ HasMsg(messages', "Your inventory is full")
             /\ inventory' = inventory
             /\ objects' = objects
       /\ Len(inventory) <= 26
       /\ Len(inventory') <= 26]_vars

\* A pick-up was refused with 26 items held and an item left on the ground.
C18_Witness ==
    /\ key = "g"
    /\ Len(inventory) = 26
    /\ HasMsg(messages, "Your inventory is full")
    /\ \E k \in 1..Len(objects) :
          /\ objects[k].item # <<>>
          /\ objects[k].x = objects[PLAYER].x
          /\ objects[k].y = objects[PLAYER].y

\* C20: a cancelled item use (Heal at full health, Lightning with no
\* monster to strike, Confuse or Fireball with the target selection
\* aborted) is logged as cancelled and leaves the entity list, the map and
\* the inventory, the item included, as they were.
C20_CancelledUseChangesNothing ==
    [][( /\ key' = "i"
         /\ \/ HasMsg(messages', "You are already at full health.")
            \/ HasMsg(messages', "No enemy is close enough to strike.")
            \/ (HasMsg(messages', "Left-click a target tile") /\ mouse' = <<-1, -1>>)
            \/ HasMsg(messages', "Cancelled") )
          => /\ HasMsg(messages', "Cancelled")
             /\ objects' = objects
             /\ inventory' = inventory
             /\ map' = map]_vars

\* A healing potion was used at full health: the use was cancelled and the
\* potion is still in the inventory.
C20_Witness ==
    /\ key = "i"
    /\ HasMsg(messages, "You are already at full health.")
    /\ HasMsg(messages, "Cancelled")
    /\ \E i \in 1..Len(inventory) : inventory[i].item = <<"Heal">>
    /\ objects[PLAYER].fighter[1].hp = objects[PLAYER].fighter[1].base_max_hp

\* C22: using a Sword or a Shield from the inventory flips its equipped
\* flag: an equipped item becomes unequipped, its bonuses no longer counted
\* in the player's power, defense and max hp, and an unequipped one becomes
\* equipped; the inventory keeps its items.
C22_ToggleFlipsEquipped ==
    [][( /\ key' = "i"
         /\ attacker' \in 1..Len(inventory)
         /\ inventory[attacker'].equipment # <<>> )
          => /\ Len(inventory') = Len(inventory)
             /\ inventory'[attacker'].equipment[1].equipped
                   = ~inventory[attacker'].equipment[1].equipped
             /\ inventory[attacker'].equipment[1].equipped
                   => Bonus(objects'[PLAYER], inventory', "power_bonus")
                         = Bonus(objects[PLAYER], inventory, "power_bonus")
                             - inventory[attacker'].equipment[1].power_bonus]_vars

\* The monsters Lightning may strike: not the player, with Fighter and AI,
\* in the field of view, at distance 5 or less
C23_Qualify ==
    {k \in 2..Len(objects) :
        /\ objects[k].fighter # <<>>
        /\ objects[k].ai # <<>>
        /\ is_in_fov(FovNow, map, objects[k].x, objects[k].y)
        /\ (objects[k].x - objects[PLAYER].x) * (objects[k].x - objects[PLAYER].x)
             + (objects[k].y - objects[PLAYER].y) * (objects[k].y - objects[PLAYER].y)
               <= 5 * 5}

\* C23: among the monsters that qualify, Lightning strikes the nearest to
\* the player, the earliest in the entity list among equally near ones;
\* that monster loses exactly 40 hp whatever its defense, down to 0 at
\* least, no other entity loses any, and if it is killed its xp is added
\* to the player's.
C23_LightningStrikesNearest ==
    [][( /\ key' = "i"
         /\ attacker' \in 1..Len(inventory)
         /\ inventory[attacker'].item = <<"Lightning">>
         /\ C23_Qualify # {} )
          => LET d2(k) == (objects[k].x - objects[PLAYER].x)
                             * (objects[k].x - objects[PLAYER].x)
                          + (objects[k].y - objects[PLAYER].y)
                             * (objects[k].y - objects[PLAYER].y)
                 t == CHOOSE k \in C23_Qualify :
                         \A j \in C23_Qualify :
                            d2(k) < d2(j) \/ (d2(k) = d2(j) /\ k <= j)
                 hp == objects[t].fighter[1].hp
                 hp_after == objects'[t].fighter[1].hp
             IN  /\ Len(objects') = Len(objects)
                 /\ hp_after = (IF hp > 40 THEN hp - 40 ELSE 0)
                 /\ \A k \in 1..Len(objects) :
                       (k # t /\ objects[k].fighter # <<>>)
                          => objects'[k].fighter[1].hp = objects[k].fighter[1].hp
                 /\ objects'[PLAYER].fighter[1].xp
                       = objects[PLAYER].fighter[1].xp
                           + (IF hp_after = 0 THEN objects[t].fighter[1].xp ELSE 0)]_vars

\* Of a Troll and an Orc equally near the player, the Troll, earlier in the
\* entity list, was struck and killed and its xp went to the player; the
\* Orc kept its hp.
C23_Witness ==
    /\ key = "i"
    /\ HasMsg(messages, "A lightning bolt strikes")
    /\ Len(inventory) = 1
    /\ Len(objects) = 4
    /\ objects[2].fighter # <<>> /\ objects[3].fighter # <<>>
    /\ objects[2].name = "remains of Troll"
    /\ objects[2].fighter[1].hp = 0
    /\ objects[3].fighter[1].hp = 20
    /\ objects[PLAYER].fighter[1].xp = 100
    /\ (objects[2].x - objects[PLAYER].x) * (objects[2].x - objects[PLAYER].x)
         + (objects[2].y - objects[PLAYER].y) * (objects[2].y - objects[PLAYER].y)
       = (objects[3].x - objects[PLAYER].x) * (objects[3].x - objects[PLAYER].x)
         + (objects[3].y - objects[PLAYER].y) * (objects[3].y - objects[PLAYER].y)

\* C24: a Fireball raises the player's xp by exactly the sum of the xp of
\* the entities other than the player that the blast killed (alive before,
\* at 0 hp after); the player's own death adds nothing.
C24_FireballXp ==
    [][(key' = "i" /\ HasMsg(messages', "The fireball explodes"))
          => /\ Len(objects') = Len(objects)
             /\ objects'[PLAYER].fighter[1].xp
                   = objects[PLAYER].fighter[1].xp
                       + SumSeq([k \in 1..Len(objects) |->
                                    IF /\ k # PLAYER
                                       /\ objects[k].fighter # <<>>
                                       /\ objects[k].fighter[1].hp > 0
                                       /\ objects'[k].fighter[1].hp = 0
                                    THEN objects[k].fighter[1].xp
                                    ELSE 0])]_vars

\* C25: Heal at hp equal to the effective max hp is Cancelled and leaves
\* hp and inventory as they were; otherwise hp becomes min(hp + 40,
\* effective max hp) and the potion, and nothing else, leaves the inventory.
C25_HealRule ==
    [][( /\ key' = "i"
         /\ attacker' \in 1..Len(inventory)
         /\ inventory[attacker'].item = <<"Heal">> )
          => LET hp == objects[PLAYER].fighter[1].hp
                 cap == objects[PLAYER].fighter[1].base_max_hp
                          + Bonus(objects[PLAYER], inventory, "max_hp_bonus")
                 hp_after == objects'[PLAYER].fighter[1].hp
             IN  IF hp = cap
                 THEN /\ HasMsg(messages', "Cancelled")
                      /\ hp_after = hp
                      /\ inventory' = inventory
                 ELSE /\ hp_after = (IF hp + 40 < cap THEN hp + 40 ELSE cap)
                      /\ Len(inventory') = Len(inventory) - 1
                      /\ \A k \in 1..Len(inventory') :
                            inventory'[k] = inventory[IF k < attacker' THEN k ELSE k + 1]]_vars

\* A potion took a player with 70 hit points at most from 5 to 45, short of
\* the maximum, and left the other potion in the inventory.
C25_Witness ==
    /\ key = "i"
    /\ HasMsg(messages, "Your wounds start to feel better!")
    /\ objects[PLAYER].fighter[1].hp = 45
    /\ objects[PLAYER].fighter[1].base_max_hp = 70
    /\ \E i \in 1..Len(inventory) : inventory[i].item = <<"Heal">>

\* An inventory item with its equipped flag left out of account
C26_Item(o) ==
    IF o.equipment = <<>> THEN o ELSE [o EXCEPT !.equipment[1].equipped = FALSE]

\* C26: after use_item has dispatched the effect of the item at the chosen
\* index: a cancelled use logs "Cancelled" and leaves the inventory as it
\* was; a use of a Sword or Shield (UsedAndKept) leaves the inventory its
\* items, in their order; any other use (UsedUp) removes exactly the item
\* at the chosen index and leaves the others in their order.
C26_UseItemOutcome ==
    [][( /\ key' = "i"
         /\ attacker' \in 1..Len(inventory) )
          => LET cancelled == HasMsg(messages', "Cancelled")
                 kept == inventory[attacker'].equipment # <<>>
             IN  /\ cancelled => inventory' = inventory
                 /\ kept => /\ ~cancelled
                            /\ Len(inventory') = Len(inventory)
                            /\ \A k \in 1..Len(inventory) :
                                  C26_Item(inventory'[k]) = C26_Item(inventory[k])
                 /\ (~cancelled /\ ~kept)
                       => /\ Len(inventory') = Len(inventory) - 1
                          /\ \A k \in 1..Len(inventory') :
                                inventory'[k]
                                   = inventory[IF k < attacker' THEN k ELSE k + 1]]_vars

\* The first of at least three inventory items, a potion, was used up: the
\* others, a sword among them, moved up by one.
C26_Witness ==
    /\ key = "i"
    /\ attacker = 1
    /\ HasMsg(messages, "Your wounds start to feel better!")
    /\ Len(inventory) >= 2
    /\ inventory[1].item = <<"Sword">>
    /\ inventory[2].item # <<"Sword">>

\* Entity indices of the items lying where the player stands
C27_Here ==
    {k \in 1..Len(objects) : /\ objects[k].item # <<>>
                             /\ objects[k].x = objects[PLAYER].x
                             /\ objects[k].y = objects[PLAYER].y}

\* C27: a pick-up with fewer than 26 items held moves the item: one entity
\* fewer on the map, the item appended to the inventory, the number of
\* items on the ground and in the inventory together unchanged; the item
\* ends up equipped if and only if it carries an Equipment component and
\* no inventory item was equipped in its slot before.
C27_PickUpMoves ==
    [][( /\ key' = "g"
         /\ objects[PLAYER].alive
         /\ Len(inventory) < 26
         /\ C27_Here # {} )
          => /\ Len(objects') = Len(objects) - 1
             /\ Len(inventory') = Len(inventory) + 1
             /\ \A k \in 1..Len(inventory) : inventory'[k] = inventory[k]
             /\ \E k \in C27_Here :
                   LET item == objects[k]
                       got == inventory'[Len(inventory')]
                   IN  /\ C26_Item(got) = C26_Item(item)
                       /\ (got.equipment # <<>> /\ got.equipment[1].equipped)
                             <=> ( /\ item.equipment # <<>>
                                   /\ EquippedIn(inventory, item.equipment[1].slot) = {} )
             /\ Cardinality({k \in 1..Len(objects') : objects'[k].item # <<>>})
                   + Len(inventory')
                 = Cardinality({k \in 1..Len(objects) : objects[k].item # <<>>})
                   + Len(inventory)]_vars

\* The step function a table stands for: the value of the last entry whose
\* level is at most the depth, 0 when there is none
C28_Step(t, d) ==
    LET upto == {k \in 1..Len(t) : t[k].level <= d}
    IN  IF upto = {} THEN 0
        ELSE t[CHOOSE k \in upto : \A j \in upto : k >= j].value

\* C28: for a table sorted by level and a depth d, from_dungeon_level
\* returns the value of the last entry whose level <= d, an entry applying
\* at the depth equal to its level, and 0 when no entry qualifies; the
\* Troll weight is 0 below depth 3, 15 at 3 and 4, 30 at 5 and 6, 60 from 7
\* on; for the tables of the program no lesser depth gives a greater value.
C28_TableLookup ==
    (phase = "looked")
       => LET t == lookup.table
              d == lookup.level
              v == lookup.value[1]
              program == { <<[level |-> 1, value |-> 2], [level |-> 4, value |-> 3],
                             [level |-> 6, value |-> 5]>>,
                           <<[level |-> 3, value |-> 15], [level |-> 5, value |-> 30],
                             [level |-> 7, value |-> 60]>>,
                           <<[level |-> 1, value |-> 1], [level |-> 4, value |-> 2]>>,
                           <<[level |-> 4, value |-> 25]>>, <<[level |-> 6, value |-> 25]>>,
                           <<[level |-> 2, value |-> 10]>>, <<[level |-> 4, value |-> 5]>>,
                           <<[level |-> 8, value |-> 15]>> }
          IN  /\ v = C28_Step(t, d)
              /\ (\A k \in 1..Len(t) : t[k].level > d) => v = 0
              /\ \A k \in 1..Len(t) :
                    (t[k].level = d /\ \A j \in (k + 1)..Len(t) : t[j].level > d)
                       => v = t[k].value
              /\ t = <<[level |-> 3, value |-> 15], [level |-> 5, value |-> 30],
                       [level |-> 7, value |-> 60]>>
                    => v = (CASE d < 3 -> 0 [] d \in 3..4 -> 15
                              [] d \in 5..6 -> 30 [] OTHER -> 60)
              /\ t \in program => \A lesser \in 0..d : C28_Step(t, lesser) <= v

\* The Troll table was looked up at depth 3, the level of its first entry.
C28_Witness ==
    /\ phase = "looked"
    /\ lookup.table = <<[level |-> 3, value |-> 15], [level |-> 5, value |-> 30],
                        [level |-> 7, value |-> 60]>>
    /\ lookup.level = 3
    /\ lookup.value = <<15>>

\* C30: once the player is not alive the turn engine is terminal: no
\* iteration of the loop runs a monster phase, and the movement, pick-up,
\* drop and item-use keys, like any key but the exit request, leave the
\* entity list, the inventory and the map as they are.
C30_DeadPlayerTerminal ==
    [][( /\ phase = "play"
         /\ ~objects[PLAYER].alive
         /\ key' # "Escape" )
          => /\ ai_invoked' = {}
             /\ player_action' = "DidntTakeTurn"
             /\ objects' = objects
             /\ inventory' = inventory
             /\ map' = map]_vars

\* The player died of the Fireball with the Orc alive and away, and a
\* movement key was handled since.
C30_Witness ==
    /\ phase = "play"
    /\ ~objects[PLAYER].alive
    /\ objects[PLAYER].fighter[1].hp = 0
    /\ key \in {"Up", "Down", "Left", "Right"}
    /\ \E k \in 2..Len(objects) :
          /\ objects[k].ai # <<>>
          /\ objects[k].alive
          /\ (objects[k].x - objects[PLAYER].x) * (objects[k].x - objects[PLAYER].x)
               + (objects[k].y - objects[PLAYER].y) * (objects[k].y - objects[PLAYER].y)
                 >= 4

\* C21: a load failure (no save file, or contents that are not a whole
\* save) is recoverable: "Continue" either starts a session from a file
\* that holds the whole of that session's state, or reports "No saved game
\* to load.", starts no session and is back at the main menu with no game
\* data taken from the file; with no file it is the latter.
C21_LoadFailureRecoverable ==
    [][key' = "Continue"
          => \/ /\ phase' = "play"
                /\ savegame # <<>>
                /\ savegame[1] = save_game(Game(map', messages', inventory',
                                                dungeon_level'), objects')
             \/ /\ HasMsg(messages', "No saved game to load.")
                /\ phase' = "menu"
                /\ objects' = <<>>
                /\ inventory' = <<>>
                /\ map' = {}]_vars

\* "Continue" was refused for a file that is there but is not a whole save.
C21_Witness ==
    /\ phase = "menu"
    /\ key = "Continue"
    /\ HasMsg(messages, "No saved game to load.")
    /\ savegame # <<>>
    /\ savegame[1] # [t |-> "invalid"]
    /\ objects = <<>>

----------------------------------------------------------------------------
(* Properties of the generator *)

\* The tiles of a rectangle, border included
RectTiles(r) == (r.x1..r.x2) \X (r.y1..r.y2)

Neighbours(t) ==
    {<<t[1] + d[1], t[2] + d[2]>> : d \in Dirs \ {<<0, 0>>}}

\* The carved tiles connected to the tiles of `seen` by carved tiles
RECURSIVE Reach(_, _)
Reach(m, seen) ==
    LET more == {t \in m \ seen : Neighbours(t) \cap seen # {}}
    IN  IF more = {} THEN seen ELSE Reach(m, seen \cup more)

\* C3: every accepted room is reachable from the player's start room, the
\* first accepted room, through carved tiles only.
C3_RoomsReachable ==
    \A k \in 1..Len(rooms) :
        center(rooms[k]) \in Reach(map, {center(rooms[1])})

\* C4: no two accepted rooms' rectangles overlap, not even by sharing a
\* border tile.
C4_RoomsDisjoint ==
    \A i \in 1..Len(rooms) : \A j \in 1..Len(rooms) :
        i # j => RectTiles(rooms[i]) \cap RectTiles(rooms[j]) = {}

\* Two rooms were accepted and a candidate was rejected.
C4_Witness ==
    /\ phase = "gen"
    /\ Len(rooms) >= 2
    /\ attempt > Len(rooms)

\* C29: once the dungeon is generated, the player set at the centre of the
\* first room included, and after any moves, no two entities with blocks =
\* true stand on the same tile and no blocking entity stands on a blocked
\* tile.
C29_BlockersApart ==
    (phase \in {"generated", "play"})
       => /\ \A i \in 1..Len(objects) : \A j \in 1..Len(objects) :
                (i # j /\ objects[i].blocks /\ objects[j].blocks)
                   => <<objects[i].x, objects[i].y>> # <<objects[j].x, objects[j].y>>
          /\ \A i \in 1..Len(objects) :
                objects[i].blocks => <<objects[i].x, objects[i].y>> \in map

\* The states one iteration of the room loop can lead to
GenRoomOutcomes ==
    UNION {UNION {{RoomResult(Rect_new(x, y, w, h), coin, md, id) :
                      coin \in Coins(Rect_new(x, y, w, h)),
                      md \in MonsterDraws(Rect_new(x, y, w, h)),
                      id \in ItemDraws(Rect_new(x, y, w, h))} :
                  x \in 0..(GenWidth - w - 1), y \in 0..(GenHeight - h - 1)} :
           w \in GenRoomMin..GenRoomMax, h \in GenRoomMin..GenRoomMax}

\* C19: the engine is deterministic: with the same seed and the same input,
\* two runs go through the same states.  The generator takes no input and
\* the program keeps no seed, so each iteration of the room loop can lead
\* to one state only.
C19_Deterministic ==
    (phase = "gen" /\ attempt < GenMaxRooms) => Cardinality(GenRoomOutcomes) = 1

\* The entity was made by this run of make_map, or is the player: a monster
\* at full health, an item the level can hold, or the one stairs at the end
\* of the list
C34_NotLeftOver(k) ==
    \/ k = PLAYER
    \/ /\ IsSome(objects[k].ai)
       /\ Unwrap(objects[k].fighter).hp = Unwrap(objects[k].fighter).base_max_hp
    \/ /\ IsSome(objects[k].item)
       /\ item_chances(Unwrap(objects[k].item), GenLevel) > 0
    \/ /\ objects[k].name = "Stairs"
       /\ k = Len(objects)
       /\ phase = "generated"

\* The counts of make_map: never more rooms than attempts, never more
\* attempts than MAX_ROOMS, a room from the first attempt on
C34_Counts ==
    /\ attempt \in 0..GenMaxRooms
    /\ Len(rooms) <= attempt
    /\ attempt >= 1 => Len(rooms) >= 1

\* What make_map returns with
C34_Result ==
    /\ attempt = GenMaxRooms
    /\ Len(rooms) \in 1..GenMaxRooms
    /\ objects[PLAYER].name = "Player"
    /\ PlayerPos = center(rooms[1])
    /\ objects[Len(objects)] =
          Stairs(center(rooms[Len(rooms)])[1], center(rooms[Len(rooms)])[2])
    /\ \A k \in 1..(Len(objects) - 1) : objects[k].name # "Stairs"

\* C34: dungeon generation always completes (before it has returned there
\* is always a next step to take, and every step either leaves a part of
\* make_map for good or uses up one of the MAX_ROOMS attempts), with at
\* least one and at most MAX_ROOMS accepted rooms: the first attempt is
\* always accepted, each attempt is made once and a rejected room is not
\* tried again (at most one room is added in an iteration); of the previous
\* entity list only the player is left, the player is at the centre of the
\* first accepted room and the stairs are appended at the centre of the
\* last.
C34_GenerationCompletes ==
    /\ [](phase \in {"gen", "generated"}
            => /\ C34_Counts
               /\ \A k \in 1..Len(objects) : C34_NotLeftOver(k))
    /\ [](phase = "generated" => C34_Result)
    /\ [][/\ phase = "new" => objects' = <<objects[PLAYER]>>
          /\ (phase = "gen" /\ phase' = "gen")
                => /\ attempt' = attempt + 1
                   /\ Len(rooms') \in {Len(rooms), Len(rooms) + 1}
                   /\ SubSeq(rooms', 1, Len(rooms)) = rooms
                   /\ objects'[PLAYER] = objects[PLAYER] \/ rooms = <<>>
          /\ phase' # phase \/ attempt' = attempt + 1]_vars
    /\ [](phase \in {"new", "gen"} => ENABLED NextGen)

\* make_map has returned from a call with the entity list of a played level,
\* with fewer rooms than attempts
C34_Witness ==
    /\ phase = "generated"
    /\ Unwrap(objects[PLAYER].fighter).hp = 12
    /\ Len(rooms) = 2
    /\ attempt = GenMaxRooms
    /\ PlayerPos = center(rooms[1])

\* The tiles of the grid
GenTiles == (0..(GenWidth - 1)) \X (0..(GenHeight - 1))

\* C36: generation carves only strictly interior tiles: every tile of the
\* outermost rows and columns of the grid is still a wall, every room centre
\* lies in the carved interior of its room, and so, on a generated level,
\* every entity stands on a tile of the grid and every tile a single step
\* of at most one tile per axis would examine is a tile of the grid.
C36_CarvedInside ==
    /\ \A t \in map : /\ t[1] \in 1..(GenWidth - 2)
                      /\ t[2] \in 1..(GenHeight - 2)
    /\ \A k \in 1..Len(rooms) :
          /\ center(rooms[k]) \in create_room(rooms[k], {})
          /\ center(rooms[k]) \in map
    /\ phase \in {"generated", "walk"}
          => \A k \in 1..Len(objects) : \A d \in Dirs :
                /\ <<objects[k].x, objects[k].y>> \in GenTiles
                /\ <<objects[k].x + d[1], objects[k].y + d[2]>> \in GenTiles

\* A monster has stepped onto a tile next to the outermost column of a
\* generated level
C36_Witness ==
    /\ phase = "walk"
    /\ hits = MaxWalk
    /\ \E k \in 2..Len(objects) :
          /\ IsSome(objects[k].ai)
          /\ objects[k].x = GenWidth - 2
          /\ <<objects[k].x, objects[k].y>> # center(rooms[Len(rooms)])

----------------------------------------------------------------------------
(* Properties of the monster phase *)

\* The Basic-AI monsters the AI controller was called for in the last
\* iteration of the game loop
BasicInvoked ==
    {k \in ai_invoked : k <= Len(objects) /\ objects[k].ai = Some(Ai_Basic)}

\* C31: a Basic-AI monster that is not in the field of view does nothing on
\* its turn: neither its position, nor the player's hp, nor any other entity,
\* nor the inventory changes in that AI invocation.
C31_UnseenMonsterIdle ==
    [][(phase' = "idle" /\ attacker' \in 1..Len(objects)
            /\ objects[attacker'].ai = Some(Ai_Basic))
          => (objects' = objects /\ inventory' = inventory)]_vars

\* A monster out of the field of view has had its turn, with the player
\* two tiles or more away from it
C31_Witness ==
    /\ phase = "idle"
    /\ attacker \in 2..3
    /\ objects[attacker].ai = Some(Ai_Basic)
    /\ ~is_in_fov(fov_origin, map, objects[attacker].x, objects[attacker].y)
    /\ distance_to2(objects[attacker], objects[PLAYER]) >= 4

\* -1, 0 or 1: the direction of b seen from a on one axis
Towards(a, b) == IF b > a THEN 1 ELSE IF b < a THEN -1 ELSE 0

\* The chasing half of C32: a monster in the field of view, 2 tiles or more
\* from the player, takes the step of move_towards, which is 0 or 1 tile
\* per axis and never away from the player, or stays where it is when the
\* tile of that step is blocked; nothing else changes, the player's hp
\* included.
C32_ChaseRule ==
    [][phase' = "chase"
          => LET id == attacker'
                 o == objects[id]
                 pl == objects[PLAYER]
                 dx == objects'[id].x - o.x
                 dy == objects'[id].y - o.y
             IN  /\ objects' = move_towards(id, pl.x, pl.y, map, objects)
                 /\ objects' = [objects EXCEPT ![id].x = o.x + dx, ![id].y = o.y + dy]
                 /\ dx \in {0, Towards(o.x, pl.x)}
                 /\ dy \in {0, Towards(o.y, pl.y)}
                 /\ (dx # 0 \/ dy # 0) => ~is_blocked(o.x + dx, o.y + dy, map, objects)]_vars

\* C32: a Basic-AI monster in the field of view either moves or attacks,
\* never both: 2 tiles or more from the player it takes one step towards
\* the player, or stays if that tile is blocked; closer than 2 tiles it
\* attacks the player through Object::attack if the player's hp is above 0,
\* and does nothing otherwise.
C32_MoveOrAttack ==
    [][/\ phase' = "chase"
            => objects' = move_towards(attacker', objects[PLAYER].x,
                                       objects[PLAYER].y, map, objects)
       /\ phase' = "adjacent"
            => objects' = attack(StartSt, attacker', PLAYER).objects
       /\ phase' = "spent" => objects' = objects]_vars

\* C33: a level-up applies exactly one of the three upgrades and leaves the
\* other stats unchanged: choice 0 adds 20 to base max hp and to hp, choice
\* 1 adds 1 to base power, choice 2 adds 1 to base defense; the choice is
\* the first valid answer of the menu, which is asked again until there is
\* one, so no level is gained without an upgrade.
C33_OneUpgrade ==
    [][(key' = "level_up" /\ hits' = hits + 1
            /\ objects'[PLAYER].level # objects[PLAYER].level)
          => LET f == Unwrap(objects[PLAYER].fighter)
                 g == Unwrap(objects'[PLAYER].fighter)
                 c == menu_answers'[Len(menu_answers')]
             IN  /\ menu_answers' # <<>>
                 /\ \A i \in 1..(Len(menu_answers') - 1) : menu_answers'[i] = None
                 /\ c \in {Some(0), Some(1), Some(2)}
                 /\ g.base_max_hp = f.base_max_hp + (IF c = Some(0) THEN 20 ELSE 0)
                 /\ g.hp = f.hp + (IF c = Some(0) THEN 20 ELSE 0)
                 /\ g.base_power = f.base_power + (IF c = Some(1) THEN 1 ELSE 0)
                 /\ g.base_defense = f.base_defense + (IF c = Some(2) THEN 1 ELSE 0)
                 /\ objects'[PLAYER].level = objects[PLAYER].level + 1
                 /\ objects' = [objects EXCEPT
                                   ![PLAYER].level = @ + 1,
                                   ![PLAYER].fighter = Some(
                                       [g EXCEPT !.xp = f.xp - level_up_xp(
                                                     objects[PLAYER].level)])]
                 /\ inventory' = inventory]_vars

\* A level was gained with the Constitution upgrade, chosen at the second
\* prompt after a key that is no option
C33_Witness ==
    /\ key = "level_up"
    /\ menu_answers = <<None, Some(0)>>
    /\ objects[PLAYER].level = 2
    /\ Unwrap(objects[PLAYER].fighter).base_max_hp = 50
    /\ Unwrap(objects[PLAYER].fighter).hp = 50

\* C35: whenever the AI controller consulted the field of view in a monster
\* phase, that field of view was computed from the position the player has
\* in that phase, i.e. after the player's move of the same turn.
C35_FovOfCurrentPosition ==
    (phase = "play" /\ BasicInvoked # {}) => fov_origin = PlayerPos

====
